---- MODULE Spec2Model ----
(***************************************************************************)
(* FAIR assessment and enrichment engine of ooi_fair_pipeline_project.     *)
(*                                                                         *)
(* A dataset is a bag of global attributes plus named variables, each with *)
(* its own attributes.  The assessor maps a dataset to a FAIR score, the   *)
(* enrichers map a dataset to a dataset plus a ledger of changes/issues,   *)
(* and a pipeline object runs enrichers by name and saves the result.      *)
(***************************************************************************)
EXTENDS Integers, Sequences, FiniteSets, TLC

(***************************************************************************)
(* Strings.  Python's substring tests (`'lat' in name.lower()`) are        *)
(* computed on the spelling of each string, one character per element.     *)
(***************************************************************************)
Chars ==
    ("temp" :> <<"t","e","m","p">>)
    @@ ("sal" :> <<"s","a","l">>)
    @@ ("lat" :> <<"l","a","t">>)
    @@ ("lon" :> <<"l","o","n">>)
    @@ ("time" :> <<"t","i","m","e">>)
    @@ ("obs" :> <<"o","b","s">>)
    @@ ("xyz" :> <<"x","y","z">>)
    @@ ("temp_qc" :> <<"t","e","m","p","_","q","c">>)
    @@ ("depth" :> <<"d","e","p","t","h">>)
    @@ ("PH_IN_SITU_TOTAL" :> <<"P","H","_","I","N","_","S","I","T","U","_","T","O","T","A","L">>)
    @@ ("PRES" :> <<"P","R","E","S">>)
    @@ ("TEMP" :> <<"T","E","M","P">>)
    @@ ("BBP700_ADJUSTED" :> <<"B","B","P","7","0","0","_","A","D","J","U","S","T","E","D">>)
    @@ ("BBP700" :> <<"B","B","P","7","0","0">>)
    @@ ("LATITUDE" :> <<"L","A","T","I","T","U","D","E">>)
    @@ ("LONGITUDE" :> <<"L","O","N","G","I","T","U","D","E">>)
    @@ ("JULD" :> <<"J","U","L","D">>)
    @@ ("TEMP_QC" :> <<"T","E","M","P","_","Q","C">>)
    @@ ("PH_ANOMALY_FLAG" :> <<"P","H","_","A","N","O","M","A","L","Y","_","F","L","A","G">>)
    @@ ("PH_ANOMALY_SCORE" :> <<"P","H","_","A","N","O","M","A","L","Y","_","S","C","O","R","E">>)
    @@ ("latitude" :> <<"l","a","t","i","t","u","d","e">>)
    @@ ("longitude" :> <<"l","o","n","g","i","t","u","d","e">>)
    @@ ("altitude" :> <<"a","l","t","i","t","u","d","e">>)
    @@ ("qc" :> <<"q","c">>)
    @@ ("qartod" :> <<"q","a","r","t","o","d">>)
    @@ ("flag" :> <<"f","l","a","g">>)
    @@ ("quality" :> <<"q","u","a","l","i","t","y">>)
    @@ ("timestamp" :> <<"t","i","m","e","s","t","a","m","p">>)
    @@ ("_time" :> <<"_","t","i","m","e">>)
    @@ ("time_" :> <<"t","i","m","e","_">>)
    @@ ("_QC" :> <<"_","Q","C">>)
    @@ ("driver_timestamp" :> <<"d","r","i","v","e","r","_","t","i","m","e","s","t","a","m","p">>)
    @@ ("ingestion_time" :> <<"i","n","g","e","s","t","i","o","n","_","t","i","m","e">>)
    @@ ("QARTOD" :> <<"Q","A","R","T","O","D">>)
    @@ ("ADJUSTED_ERROR" :> <<"A","D","J","U","S","T","E","D","_","E","R","R","O","R">>)
    @@ ("_ADJUSTED" :> <<"_","A","D","J","U","S","T","E","D">>)
    @@ ("CF" :> <<"C","F">>)
    @@ ("argo.ucsd.edu" :> <<"a","r","g","o",".","u","c","s","d",".","e","d","u">>)
    @@ ("temperature" :> <<"t","e","m","p","e","r","a","t","u","r","e">>)
    @@ ("sea_water_temperature" :> <<"s","e","a","_","w","a","t","e","r","_","t","e","m","p","e","r","a","t","u","r","e">>)
    @@ ("seawater_temperature" :> <<"s","e","a","w","a","t","e","r","_","t","e","m","p","e","r","a","t","u","r","e">>)
    @@ ("salinity" :> <<"s","a","l","i","n","i","t","y">>)
    @@ ("sea_water_salinity" :> <<"s","e","a","_","w","a","t","e","r","_","s","a","l","i","n","i","t","y">>)
    @@ ("sea_water_practical_salinity" :> <<"s","e","a","_","w","a","t","e","r","_","p","r","a","c","t","i","c","a","l","_","s","a","l","i","n","i","t","y">>)
    @@ ("pressure" :> <<"p","r","e","s","s","u","r","e">>)
    @@ ("pres" :> <<"p","r","e","s">>)
    @@ ("sea_water_pressure" :> <<"s","e","a","_","w","a","t","e","r","_","p","r","e","s","s","u","r","e">>)
    @@ ("conductivity" :> <<"c","o","n","d","u","c","t","i","v","i","t","y">>)
    @@ ("cond" :> <<"c","o","n","d">>)
    @@ ("sea_water_electrical_conductivity" :> <<"s","e","a","_","w","a","t","e","r","_","e","l","e","c","t","r","i","c","a","l","_","c","o","n","d","u","c","t","i","v","i","t","y">>)
    @@ ("oxygen" :> <<"o","x","y","g","e","n">>)
    @@ ("do" :> <<"d","o">>)
    @@ ("dissolved_oxygen" :> <<"d","i","s","s","o","l","v","e","d","_","o","x","y","g","e","n">>)
    @@ ("ph" :> <<"p","h">>)
    @@ ("sea_water_ph" :> <<"s","e","a","_","w","a","t","e","r","_","p","h">>)
    @@ ("CF-1.6" :> <<"C","F","-","1",".","6">>)
    @@ ("ACDD-1.3" :> <<"A","C","D","D","-","1",".","3">>)
    @@ ("COARDS" :> <<"C","O","A","R","D","S">>)
    @@ ("PRES_ADJUSTED" :> <<"P","R","E","S","_","A","D","J","U","S","T","E","D">>)
    @@ ("TEMP_ADJUSTED" :> <<"T","E","M","P","_","A","D","J","U","S","T","E","D">>)
    @@ ("PSAL" :> <<"P","S","A","L">>)
    @@ ("PSAL_ADJUSTED" :> <<"P","S","A","L","_","A","D","J","U","S","T","E","D">>)
    @@ ("PH_IN_SITU_TOTAL_ADJUSTED" :> <<"P","H","_","I","N","_","S","I","T","U","_","T","O","T","A","L","_","A","D","J","U","S","T","E","D">>)
    @@ ("DOXY" :> <<"D","O","X","Y">>)
    @@ ("DOXY_ADJUSTED" :> <<"D","O","X","Y","_","A","D","J","U","S","T","E","D">>)
    @@ ("NITRATE" :> <<"N","I","T","R","A","T","E">>)
    @@ ("NITRATE_ADJUSTED" :> <<"N","I","T","R","A","T","E","_","A","D","J","U","S","T","E","D">>)
    @@ ("CHLA" :> <<"C","H","L","A">>)
    @@ ("CHLA_ADJUSTED" :> <<"C","H","L","A","_","A","D","J","U","S","T","E","D">>)
    @@ ("BBP" :> <<"B","B","P">>)
    @@ ("BBP532" :> <<"B","B","P","5","3","2">>)
    @@ ("BBP_ADJUSTED" :> <<"B","B","P","_","A","D","J","U","S","T","E","D">>)
    @@ ("BD5904468_001.nc" :> <<"B","D","5","9","0","4","4","6","8","_","0","0","1",".","n","c">>)
    @@ ("R5904471_001.nc" :> <<"R","5","9","0","4","4","7","1","_","0","0","1",".","n","c">>)
    @@ ("5904659_Rtraj.nc" :> <<"5","9","0","4","6","5","9","_","R","t","r","a","j",".","n","c">>)
    @@ ("float_590446_8.nc" :> <<"f","l","o","a","t","_","5","9","0","4","4","6","_","8",".","n","c">>)
    @@ ("D12345678.nc" :> <<"D","1","2","3","4","5","6","7","8",".","n","c">>)
    @@ ("profile.nc" :> <<"p","r","o","f","i","l","e",".","n","c">>)
    @@ ("poor_fair.nc" :> <<"p","o","o","r","_","f","a","i","r",".","n","c">>)
    @@ ("ooi_ctd.dat" :> <<"o","o","i","_","c","t","d",".","d","a","t">>)
    @@ ("CF-1.6, ACDD-1.3" :> <<"C","F","-","1",".","6",","," ","A","C","D","D","-","1",".","3">>)
    @@ ("CF-1.6, " :> <<"C","F","-","1",".","6",","," ">>)
    @@ ("; " :> <<";"," ">>)
    @@ ("https://argo.ucsd.edu, https://www.ocean-ops.org, https://doi.org/10.17882/42182" :> <<"h","t","t","p","s",":","/","/","a","r","g","o",".","u","c","s","d",".","e","d","u",","," ","h","t","t","p","s",":","/","/","w","w","w",".","o","c","e","a","n","-","o","p","s",".","o","r","g",","," ","h","t","t","p","s",":","/","/","d","o","i",".","o","r","g","/","1","0",".","1","7","8","8","2","/","4","2","1","8","2">>)
    @@ ("https://example.org/refs" :> <<"h","t","t","p","s",":","/","/","e","x","a","m","p","l","e",".","o","r","g","/","r","e","f","s">>)
    @@ ("id" :> <<"i","d">>)
    @@ ("uuid" :> <<"u","u","i","d">>)
    @@ ("doi" :> <<"d","o","i">>)
    @@ ("identifier" :> <<"i","d","e","n","t","i","f","i","e","r">>)
    @@ ("title" :> <<"t","i","t","l","e">>)
    @@ ("summary" :> <<"s","u","m","m","a","r","y">>)
    @@ ("keywords" :> <<"k","e","y","w","o","r","d","s">>)
    @@ ("creator_name" :> <<"c","r","e","a","t","o","r","_","n","a","m","e">>)
    @@ ("institution" :> <<"i","n","s","t","i","t","u","t","i","o","n">>)
    @@ ("project" :> <<"p","r","o","j","e","c","t">>)
    @@ ("geospatial_lat_min" :> <<"g","e","o","s","p","a","t","i","a","l","_","l","a","t","_","m","i","n">>)
    @@ ("geospatial_lat_max" :> <<"g","e","o","s","p","a","t","i","a","l","_","l","a","t","_","m","a","x">>)
    @@ ("geospatial_lon_min" :> <<"g","e","o","s","p","a","t","i","a","l","_","l","o","n","_","m","i","n">>)
    @@ ("geospatial_lon_max" :> <<"g","e","o","s","p","a","t","i","a","l","_","l","o","n","_","m","a","x">>)
    @@ ("time_coverage_start" :> <<"t","i","m","e","_","c","o","v","e","r","a","g","e","_","s","t","a","r","t">>)
    @@ ("time_coverage_end" :> <<"t","i","m","e","_","c","o","v","e","r","a","g","e","_","e","n","d">>)
    @@ ("Conventions" :> <<"C","o","n","v","e","n","t","i","o","n","s">>)
    @@ ("Metadata_Conventions" :> <<"M","e","t","a","d","a","t","a","_","C","o","n","v","e","n","t","i","o","n","s">>)
    @@ ("sourceUrl" :> <<"s","o","u","r","c","e","U","r","l">>)
    @@ ("datasetID" :> <<"d","a","t","a","s","e","t","I","D">>)
    @@ ("creator_email" :> <<"c","r","e","a","t","o","r","_","e","m","a","i","l">>)
    @@ ("publisher_email" :> <<"p","u","b","l","i","s","h","e","r","_","e","m","a","i","l">>)
    @@ ("contact" :> <<"c","o","n","t","a","c","t">>)
    @@ ("license" :> <<"l","i","c","e","n","s","e">>)
    @@ ("accessConstraints" :> <<"a","c","c","e","s","s","C","o","n","s","t","r","a","i","n","t","s">>)
    @@ ("metadata_link" :> <<"m","e","t","a","d","a","t","a","_","l","i","n","k">>)
    @@ ("references" :> <<"r","e","f","e","r","e","n","c","e","s">>)
    @@ ("source" :> <<"s","o","u","r","c","e">>)
    @@ ("processing_level" :> <<"p","r","o","c","e","s","s","i","n","g","_","l","e","v","e","l">>)
    @@ ("history" :> <<"h","i","s","t","o","r","y">>)
    @@ ("creator_institution" :> <<"c","r","e","a","t","o","r","_","i","n","s","t","i","t","u","t","i","o","n">>)
    @@ ("date_created" :> <<"d","a","t","e","_","c","r","e","a","t","e","d">>)
    @@ ("featureType" :> <<"f","e","a","t","u","r","e","T","y","p","e">>)
    @@ ("cdm_data_type" :> <<"c","d","m","_","d","a","t","a","_","t","y","p","e">>)
    @@ ("publisher_name" :> <<"p","u","b","l","i","s","h","e","r","_","n","a","m","e">>)
    @@ ("publisher_url" :> <<"p","u","b","l","i","s","h","e","r","_","u","r","l">>)
    @@ ("standard_name_vocabulary" :> <<"s","t","a","n","d","a","r","d","_","n","a","m","e","_","v","o","c","a","b","u","l","a","r","y">>)
    @@ ("creator_type" :> <<"c","r","e","a","t","o","r","_","t","y","p","e">>)
    @@ ("publisher_type" :> <<"p","u","b","l","i","s","h","e","r","_","t","y","p","e">>)
    @@ ("publisher_institution" :> <<"p","u","b","l","i","s","h","e","r","_","i","n","s","t","i","t","u","t","i","o","n">>)
    @@ ("program" :> <<"p","r","o","g","r","a","m">>)
    @@ ("contributor_name" :> <<"c","o","n","t","r","i","b","u","t","o","r","_","n","a","m","e">>)
    @@ ("contributor_role" :> <<"c","o","n","t","r","i","b","u","t","o","r","_","r","o","l","e">>)
    @@ ("acknowledgement" :> <<"a","c","k","n","o","w","l","e","d","g","e","m","e","n","t">>)
    @@ ("date_modified" :> <<"d","a","t","e","_","m","o","d","i","f","i","e","d">>)
    @@ ("quality_control_methodology" :> <<"q","u","a","l","i","t","y","_","c","o","n","t","r","o","l","_","m","e","t","h","o","d","o","l","o","g","y">>)
    @@ ("node" :> <<"n","o","d","e">>)
    @@ ("sensor" :> <<"s","e","n","s","o","r">>)
    @@ ("method" :> <<"m","e","t","h","o","d">>)
    @@ ("stream" :> <<"s","t","r","e","a","m">>)
    @@ ("nominal_latitude" :> <<"n","o","m","i","n","a","l","_","l","a","t","i","t","u","d","e">>)
    @@ ("nominal_longitude" :> <<"n","o","m","i","n","a","l","_","l","o","n","g","i","t","u","d","e">>)
    @@ ("nominal_depth" :> <<"n","o","m","i","n","a","l","_","d","e","p","t","h">>)
    @@ ("geospatial_vertical_min" :> <<"g","e","o","s","p","a","t","i","a","l","_","v","e","r","t","i","c","a","l","_","m","i","n">>)
    @@ ("sensor_depth" :> <<"s","e","n","s","o","r","_","d","e","p","t","h">>)
    @@ ("naming_authority" :> <<"n","a","m","i","n","g","_","a","u","t","h","o","r","i","t","y">>)
    @@ ("wmo_platform_code" :> <<"w","m","o","_","p","l","a","t","f","o","r","m","_","c","o","d","e">>)
    @@ ("creator_url" :> <<"c","r","e","a","t","o","r","_","u","r","l">>)
    @@ ("citation" :> <<"c","i","t","a","t","i","o","n">>)
    @@ ("keywords_vocabulary" :> <<"k","e","y","w","o","r","d","s","_","v","o","c","a","b","u","l","a","r","y">>)
    @@ ("geospatial_lat_units" :> <<"g","e","o","s","p","a","t","i","a","l","_","l","a","t","_","u","n","i","t","s">>)
    @@ ("geospatial_lat" :> <<"g","e","o","s","p","a","t","i","a","l","_","l","a","t">>)
    @@ ("geospatial_lon_units" :> <<"g","e","o","s","p","a","t","i","a","l","_","l","o","n","_","u","n","i","t","s">>)
    @@ ("geospatial_lon" :> <<"g","e","o","s","p","a","t","i","a","l","_","l","o","n">>)
    @@ ("time_coverage_duration" :> <<"t","i","m","e","_","c","o","v","e","r","a","g","e","_","d","u","r","a","t","i","o","n">>)
    @@ ("geospatial_lat_resolution" :> <<"g","e","o","s","p","a","t","i","a","l","_","l","a","t","_","r","e","s","o","l","u","t","i","o","n">>)
    @@ ("geospatial_lon_resolution" :> <<"g","e","o","s","p","a","t","i","a","l","_","l","o","n","_","r","e","s","o","l","u","t","i","o","n">>)
    @@ ("geospatial_vertical_max" :> <<"g","e","o","s","p","a","t","i","a","l","_","v","e","r","t","i","c","a","l","_","m","a","x">>)
    @@ ("geospatial_vertical_resolution" :> <<"g","e","o","s","p","a","t","i","a","l","_","v","e","r","t","i","c","a","l","_","r","e","s","o","l","u","t","i","o","n">>)
    @@ ("geospatial_vertical_units" :> <<"g","e","o","s","p","a","t","i","a","l","_","v","e","r","t","i","c","a","l","_","u","n","i","t","s">>)
    @@ ("geospatial_vertical_positive" :> <<"g","e","o","s","p","a","t","i","a","l","_","v","e","r","t","i","c","a","l","_","p","o","s","i","t","i","v","e">>)
    @@ ("anomaly_detection_method" :> <<"a","n","o","m","a","l","y","_","d","e","t","e","c","t","i","o","n","_","m","e","t","h","o","d">>)
    @@ ("anomaly_detection_variables" :> <<"a","n","o","m","a","l","y","_","d","e","t","e","c","t","i","o","n","_","v","a","r","i","a","b","l","e","s">>)
    @@ ("anomaly_count" :> <<"a","n","o","m","a","l","y","_","c","o","u","n","t">>)
    @@ ("anomaly_percentage" :> <<"a","n","o","m","a","l","y","_","p","e","r","c","e","n","t","a","g","e">>)

LowerChar ==
    [c \in {"A","B","C","D","E","F","G","H","I","J","K","L","M","N","O","P","Q","R","S","T","U","V","W","X","Y","Z"} |->
        CASE c = "A" -> "a" [] c = "B" -> "b" [] c = "C" -> "c" [] c = "D" -> "d"
          [] c = "E" -> "e" [] c = "F" -> "f" [] c = "G" -> "g" [] c = "H" -> "h"
          [] c = "I" -> "i" [] c = "J" -> "j" [] c = "K" -> "k" [] c = "L" -> "l"
          [] c = "M" -> "m" [] c = "N" -> "n" [] c = "O" -> "o" [] c = "P" -> "p"
          [] c = "Q" -> "q" [] c = "R" -> "r" [] c = "S" -> "s" [] c = "T" -> "t"
          [] c = "U" -> "u" [] c = "V" -> "v" [] c = "W" -> "w" [] c = "X" -> "x"
          [] c = "Y" -> "y" [] c = "Z" -> "z"]

\* str.lower() on a spelling
Lower(cs) ==
    [i \in 1..Len(cs) |-> IF cs[i] \in DOMAIN LowerChar THEN LowerChar[cs[i]] ELSE cs[i]]

\* `sub in cs` on spellings
Contains(cs, sub) ==
    \E i \in 1..(Len(cs) - Len(sub) + 1) : SubSeq(cs, i, i + Len(sub) - 1) = sub

\* `kw in name.lower()`
InLower(kw, name) == Contains(Lower(Chars[name]), Chars[kw])

\* `kw in name`
InName(kw, name) == Contains(Chars[name], Chars[kw])

\* str.endswith
EndsWith(cs, suf) ==
    Len(cs) >= Len(suf) /\ SubSeq(cs, Len(cs) - Len(suf) + 1, Len(cs)) = suf

\* str.replace(old, '') on a spelling: every non-overlapping occurrence, left to right
RECURSIVE Remove(_, _)
Remove(cs, old) ==
    IF Len(cs) < Len(old) THEN cs
    ELSE IF SubSeq(cs, 1, Len(old)) = old
         THEN Remove(SubSeq(cs, Len(old) + 1, Len(cs)), old)
         ELSE <<cs[1]>> \o Remove(Tail(cs), old)

(***************************************************************************)
(* Attribute values.  A value is text (a sequence of pieces, concatenated) *)
(* or a number.  float(v) succeeds on numbers and on numeric text.         *)
(***************************************************************************)
Str(pieces) == [t |-> "str", v |-> pieces]
Num(tok) == [t |-> "num", v |-> <<tok>>]
S(tok) == Str(<<tok>>)

NumericText == {"44.6", "-124.1", "25.0"}

\* float(value) does not raise
Floatable(val) == val.t = "num" \/ (Len(val.v) = 1 /\ val.v[1] \in NumericText)

\* `kw in text` for a text value whose pieces are spelled in Chars
TextContains(val, kw) ==
    \E i \in 1..Len(val.v) : val.v[i] \in DOMAIN Chars /\ Contains(Chars[val.v[i]], Chars[kw])

TextContainsLower(val, kw) ==
    \E i \in 1..Len(val.v) : val.v[i] \in DOMAIN Chars /\ Contains(Lower(Chars[val.v[i]]), Chars[kw])

\* bool(text): the empty string is falsy
Truthy(val) == val.t = "num" \/ \E i \in 1..Len(val.v) : val.v[i] # ""

(***************************************************************************)
(* Datasets.  attrs: present global attribute name -> value.               *)
(* vars: present variable name -> [coord, dim, attrs, data].               *)
(*   coord = the variable is a coordinate (not in data_vars)               *)
(*   dim   = the variable's name is a dimension name                       *)
(*   data  = shape of the values: "spread", "const", "nan", "empty", "text"*)
(***************************************************************************)
Has(f, k) == k \in DOMAIN f

\* mapping assignment d[k] = v
Put(f, k, v) == [x \in (DOMAIN f) \cup {k} |-> IF x = k THEN v ELSE f[x]]

DataVars(ds) == {n \in DOMAIN ds.vars : ~ds.vars[n].coord}
Coords(ds) == {n \in DOMAIN ds.vars : ds.vars[n].coord}

SetAttr(ds, k, v) == [ds EXCEPT !.attrs = Put(ds.attrs, k, v)]
SetVarAttr(ds, n, k, v) == [ds EXCEPT !.vars[n].attrs = Put(ds.vars[n].attrs, k, v)]


(***************************************************************************)
(* BaseEnricher: the ledger an enricher accumulates during enrich().       *)
(* An enrichment in progress is [ds, changes, issues, err]; err is set     *)
(* when the Python code raises, and every later statement is skipped.      *)
(***************************************************************************)
NewEnricher(ds) == [ds |-> ds, changes |-> <<>>, issues |-> <<>>, err |-> FALSE]

log_change(e, type, details) ==
    [e EXCEPT !.changes = Append(@, [type |-> type, details |-> details])]

log_issue(e, type, details) ==
    [e EXCEPT !.issues = Append(@, [type |-> type, details |-> details])]

Raise(e) == [e EXCEPT !.err = TRUE]

\* `x = ...; return F(x)`: the value of x is computed once, then used by F
Bind(x, F(_)) == CHOOSE r \in {F(v) : v \in {x}} : TRUE

\* `for x in xs: e = Op(e, x)`; a raised enrichment skips the rest
RECURSIVE FoldSeq(_, _, _)
FoldSeq(Op(_, _), e, xs) ==
    IF xs = <<>> THEN e
    ELSE LET step(v) == IF v.err THEN v ELSE FoldSeq(Op, Op(v, Head(xs)), Tail(xs))
         IN  Bind(e, step)

\* the order in which a dataset lists its variables
VarOrder ==
    <<"obs", "time", "lat", "lon", "depth", "temp", "sal", "xyz", "temp_qc",
      "JULD", "LATITUDE", "LONGITUDE", "PRES", "TEMP", "PH_IN_SITU_TOTAL",
      "BBP700_ADJUSTED", "TEMP_QC", "PH_ANOMALY_FLAG", "PH_ANOMALY_SCORE">>

VarNames == {VarOrder[i] : i \in DOMAIN VarOrder}

\* the members of a set of variable names, in dataset order
InOrder(names) == SelectSeq(VarOrder, LAMBDA n : n \in names)

\* BaseEnricher.safe_add_attribute on a global attribute
safe_add_attribute(e, k, v, overwrite) ==
    IF Has(e.ds.attrs, k)
    THEN IF ~overwrite THEN e
         ELSE [log_change(e, "attribute_updated", k) EXCEPT !.ds = SetAttr(e.ds, k, v)]
    ELSE [log_change(e, "attribute_added", k) EXCEPT !.ds = SetAttr(e.ds, k, v)]

\* `if k not in ds.attrs: ds.attrs[k] = v; log_change('attribute_added', ...)`
AddIfMissing(e, k, v) ==
    IF Has(e.ds.attrs, k) THEN e
    ELSE [log_change(e, "attribute_added", k) EXCEPT !.ds = SetAttr(e.ds, k, v)]

\* the same guard on a variable attribute
AddVarAttrIfMissing(e, n, k, v) ==
    IF Has(e.ds.vars[n].attrs, k) THEN e
    ELSE [log_change(e, "attribute_added", n \o ": " \o k) EXCEPT !.ds = SetVarAttr(e.ds, n, k, v)]

(***************************************************************************)
(* CoordinateEnricher                                                      *)
(***************************************************************************)
\* `for attr in cands: if attr in ds.attrs: try float(...); break / except: continue`
RECURSIVE FirstFloat(_, _)
FirstFloat(ds, cands) ==
    IF cands = <<>> THEN "none"
    ELSE IF Has(ds.attrs, Head(cands)) /\ Floatable(ds.attrs[Head(cands)]) THEN Head(cands)
    ELSE FirstFloat(ds, Tail(cands))

has_coord(ds, kw) == \E v \in Coords(ds) : InLower(kw, v)

\* ds.assign_coords(name=scalar): the name becomes a scalar coordinate,
\* replacing any variable of that name; then the listed attributes are set
assign_coords(ds, name, attrs) ==
    [ds EXCEPT !.vars = Put(ds.vars, name,
        [coord |-> TRUE, dim |-> FALSE, attrs |-> attrs, data |-> "const"])]

LatAttrs == [standard_name |-> "latitude", long_name |-> "Latitude",
             units |-> "degrees_north", axis |-> "Y"]
LonAttrs == [standard_name |-> "longitude", long_name |-> "Longitude",
             units |-> "degrees_east", axis |-> "X"]
DepthAttrs == [standard_name |-> "depth", long_name |-> "Depth",
               units |-> "m", positive |-> "down", axis |-> "Z"]

Coord_add_spatial_coordinates(e) ==
    LET has_lat == has_coord(e.ds, "lat")
        has_lon == has_coord(e.ds, "lon")
        lat == FirstFloat(e.ds, <<"lat", "latitude", "geospatial_lat_min", "nominal_latitude">>)
        lon == FirstFloat(e.ds, <<"lon", "longitude", "geospatial_lon_min", "nominal_longitude">>)
        e1 == IF lat # "none" /\ ~has_lat
              THEN [log_change(e, "coordinate_added", "lat") EXCEPT
                       !.ds = assign_coords(e.ds, "lat", LatAttrs)]
              ELSE e
        e2 == IF lon # "none" /\ ~has_lon
              THEN [log_change(e1, "coordinate_added", "lon") EXCEPT
                       !.ds = assign_coords(e1.ds, "lon", LonAttrs)]
              ELSE e1
    IN  IF has_lat /\ has_lon THEN e
        ELSE IF lat = "none" \/ lon = "none"
             THEN log_issue(e2, "missing_coordinates", "lat/lon")
             ELSE e2

Coord_add_depth_coordinate(e) ==
    LET depth == FirstFloat(e.ds, <<"depth", "nominal_depth", "geospatial_vertical_min", "sensor_depth">>)
    IN  IF has_coord(e.ds, "depth") THEN e
        ELSE IF depth # "none"
             THEN [log_change(e, "coordinate_added", "depth") EXCEPT
                      !.ds = assign_coords(e.ds, "depth", DepthAttrs)]
             ELSE log_issue(e, "missing_depth", "depth")

Coord_fix_time_coordinate(e) ==
    LET time_vars == InOrder({v \in Coords(e.ds) : InLower("time", v)})
    IN  IF time_vars = <<>> THEN log_issue(e, "missing_time", "time")
        ELSE LET tv == time_vars[1]
                 e1 == AddVarAttrIfMissing(e, tv, "standard_name", "time")
                 e2 == AddVarAttrIfMissing(e1, tv, "long_name", "Time")
             IN  AddVarAttrIfMissing(e2, tv, "axis", "T")

CoordinateEnricher_enrich(ds) ==
    Coord_fix_time_coordinate(Coord_add_depth_coordinate(
        Coord_add_spatial_coordinates(NewEnricher(ds))))

CoordinateEnricher_validate(e) == has_coord(e.ds, "time")


(***************************************************************************)
(* enrichment_strategy: lookup tables and name resolution                  *)
(***************************************************************************)
\* CF_STANDARD_NAMES, in definition order
CF_STANDARD_NAMES ==
    << <<"temperature", "sea_water_temperature">>,
       <<"temp", "sea_water_temperature">>,
       <<"sea_water_temperature", "sea_water_temperature">>,
       <<"seawater_temperature", "sea_water_temperature">>,
       <<"salinity", "sea_water_practical_salinity">>,
       <<"sal", "sea_water_practical_salinity">>,
       <<"sea_water_salinity", "sea_water_practical_salinity">>,
       <<"sea_water_practical_salinity", "sea_water_practical_salinity">>,
       <<"pressure", "sea_water_pressure">>,
       <<"pres", "sea_water_pressure">>,
       <<"sea_water_pressure", "sea_water_pressure">>,
       <<"conductivity", "sea_water_electrical_conductivity">>,
       <<"cond", "sea_water_electrical_conductivity">>,
       <<"sea_water_electrical_conductivity", "sea_water_electrical_conductivity">>,
       <<"oxygen", "mole_concentration_of_dissolved_molecular_oxygen_in_sea_water">>,
       <<"do", "mole_concentration_of_dissolved_molecular_oxygen_in_sea_water">>,
       <<"dissolved_oxygen", "mole_concentration_of_dissolved_molecular_oxygen_in_sea_water">>,
       <<"ph", "sea_water_ph_reported_on_total_scale">>,
       <<"sea_water_ph", "sea_water_ph_reported_on_total_scale">>,
       <<"time", "time">>,
       <<"lat", "latitude">>,
       <<"latitude", "latitude">>,
       <<"lon", "longitude">>,
       <<"longitude", "longitude">>,
       <<"depth", "depth">>,
       <<"altitude", "altitude">> >>

DEFAULT_UNITS ==
    [sea_water_temperature |-> "degree_C",
     sea_water_practical_salinity |-> "1",
     sea_water_pressure |-> "dbar",
     sea_water_electrical_conductivity |-> "S m-1",
     mole_concentration_of_dissolved_molecular_oxygen_in_sea_water |-> "umol kg-1",
     sea_water_ph_reported_on_total_scale |-> "1",
     time |-> "seconds since 1900-01-01T00:00:00Z",
     latitude |-> "degrees_north",
     longitude |-> "degrees_east",
     depth |-> "m",
     altitude |-> "m"]

\* exact match on the lower-cased name, else the first key that contains
\* the name or is contained in it; "none" when nothing matches
get_variable_standard_name(name) ==
    LET low == Lower(Chars[name])
        exact == {i \in DOMAIN CF_STANDARD_NAMES : Chars[CF_STANDARD_NAMES[i][1]] = low}
        part == {i \in DOMAIN CF_STANDARD_NAMES :
                    \/ Contains(low, Chars[CF_STANDARD_NAMES[i][1]])
                    \/ Contains(Chars[CF_STANDARD_NAMES[i][1]], low)}
        Min(I) == CHOOSE i \in I : \A j \in I : i <= j
    IN  IF exact # {} THEN CF_STANDARD_NAMES[Min(exact)][2]
        ELSE IF part # {} THEN CF_STANDARD_NAMES[Min(part)][2]
        ELSE "none"

\* standard_name is the variable's attribute value, or "none" when absent
get_variable_units(standard_name, name) ==
    IF standard_name \in DOMAIN DEFAULT_UNITS THEN DEFAULT_UNITS[standard_name]
    ELSE LET standard == get_variable_standard_name(name)
         IN  IF standard \in DOMAIN DEFAULT_UNITS THEN DEFAULT_UNITS[standard] ELSE "none"

\* OOI_METADATA_DEFAULTS, in definition order
OOI_METADATA_DEFAULTS ==
    << <<"institution", S("Ocean Observatories Initiative")>>,
       <<"source", S("OOI Coastal Endurance Array")>>,
       <<"project", S("Ocean Observatories Initiative")>>,
       <<"publisher_name", S("Ocean Observatories Initiative")>>,
       <<"publisher_url", S("https://oceanobservatories.org/")>>,
       <<"license", S("free use")>>,
       <<"Conventions", S("CF-1.6, ACDD-1.3")>>,
       <<"Metadata_Conventions", S("CF-1.6, ACDD-1.3")>>,
       <<"cdm_data_type", S("TimeSeries")>>,
       <<"featureType", S("timeSeries")>>,
       <<"standard_name_vocabulary", S("CF Standard Name Table v79")>>,
       <<"creator_type", S("institution")>>,
       <<"creator_institution", S("Ocean Observatories Initiative")>>,
       <<"publisher_type", S("institution")>>,
       <<"publisher_institution", S("Ocean Observatories Initiative")>>,
       <<"program", S("Ocean Observatories Initiative")>>,
       <<"contributor_name", S("NSF, OOI Consortium")>>,
       <<"contributor_role", S("sponsor, operator")>>,
       <<"acknowledgement", S("National Science Foundation")>> >>

(***************************************************************************)
(* VariableEnricher                                                        *)
(***************************************************************************)
Var_is_qc_variable(name) ==
    \E kw \in {"qc", "qartod", "flag", "quality"} : InLower(kw, name)

Var_is_timestamp_variable(name) ==
    \E kw \in {"timestamp", "_time", "time_"} : InLower(kw, name)

\* float(var.min().values) raises on non-numeric data; the bare except swallows it
Var_add_extremum(e, n, k) ==
    IF Has(e.ds.vars[n].attrs, k) \/ e.ds.vars[n].data = "text" THEN e
    ELSE [log_change(e, "attribute_added", n \o ": " \o k) EXCEPT
             !.ds = SetVarAttr(e.ds, n, k, "extremum")]

Var_enrich_variable(e, n) ==
    LET std(x) ==
            IF Has(x.ds.vars[n].attrs, "standard_name") THEN x
            ELSE IF get_variable_standard_name(n) # "none"
                 THEN [log_change(x, "attribute_added", n \o ": standard_name") EXCEPT
                          !.ds = SetVarAttr(x.ds, n, "standard_name",
                                            get_variable_standard_name(n))]
                 ELSE log_issue(x, "no_standard_name", n)
        found_units(v) ==
            get_variable_units(
                IF Has(v.attrs, "standard_name") THEN v.attrs["standard_name"] ELSE "none", n)
        units(x) ==
            IF Has(x.ds.vars[n].attrs, "units") THEN x
            ELSE IF found_units(x.ds.vars[n]) # "none"
                 THEN [log_change(x, "attribute_added", n \o ": units") EXCEPT
                          !.ds = SetVarAttr(x.ds, n, "units", found_units(x.ds.vars[n]))]
                 ELSE log_issue(
                          [log_change(x, "attribute_added", n \o ": units") EXCEPT
                              !.ds = SetVarAttr(x.ds, n, "units", "1")],
                          "unknown_units", n)
        long_name(x) == AddVarAttrIfMissing(x, n, "long_name", "generated")
        range(x) ==
            IF x.ds.vars[n].data = "empty" THEN x
            ELSE Var_add_extremum(Var_add_extremum(x, n, "valid_min"), n, "valid_max")
    IN  IF Var_is_qc_variable(n) \/ Var_is_timestamp_variable(n) THEN e
        ELSE Bind(Bind(Bind(Bind(e, std), units), long_name), range)

VariableEnricher_enrich(ds) ==
    FoldSeq(Var_enrich_variable, NewEnricher(ds), InOrder(DataVars(ds)))

VariableEnricher_validate(e) ==
    \A n \in DataVars(e.ds) :
        Var_is_qc_variable(n) \/
        (Has(e.ds.vars[n].attrs, "units") /\ Has(e.ds.vars[n].attrs, "long_name"))


(***************************************************************************)
(* MetadataEnricher.  now is the reading of datetime.utcnow().             *)
(***************************************************************************)
Meta_add_default(e, kv) == AddIfMissing(e, kv[1], kv[2])

Meta_add_ooi_defaults(e) == FoldSeq(Meta_add_default, e, OOI_METADATA_DEFAULTS)

\* `'CF' not in conventions` raises TypeError on a numeric attribute
Meta_enhance_conventions(e) ==
    IF e.err THEN e
    ELSE IF Has(e.ds.attrs, "Conventions")
    THEN LET conventions == e.ds.attrs["Conventions"]
         IN  IF conventions.t # "str" THEN Raise(e)
             ELSE IF TextContains(conventions, "CF") THEN e
             ELSE [log_change(e, "attribute_updated", "Conventions") EXCEPT
                      !.ds = SetAttr(e.ds, "Conventions",
                                 IF Truthy(conventions)
                                 THEN Str(<<"CF-1.6, ">> \o conventions.v)
                                 ELSE S("CF-1.6, ACDD-1.3"))]
    ELSE [log_change(e, "attribute_added", "Conventions") EXCEPT
             !.ds = SetAttr(e.ds, "Conventions", S("CF-1.6, ACDD-1.3"))]

\* history is replaced by the new entry instead of being prepended to
Meta_add_timestamps_overwrite(e, now) ==
    IF e.err THEN e
    ELSE
    LET current_time == S(ToString(now))
        e1 == IF Has(e.ds.attrs, "date_created") THEN e
              ELSE [log_change(e, "attribute_added", "date_created") EXCEPT
                       !.ds = SetAttr(e.ds, "date_created",
                                  IF Has(e.ds.attrs, "time_coverage_start")
                                  THEN e.ds.attrs["time_coverage_start"]
                                  ELSE current_time)]
        e2 == [e1 EXCEPT !.ds = SetAttr(e1.ds, "date_modified", current_time)]
    IN  [log_change(e2, "attribute_updated", "date_modified and history") EXCEPT
            !.ds = SetAttr(e2.ds, "history",
                       Str(<<ToString(now), ": Enriched by OOI FAIR Pipeline; ">>))]

\* history is prepended: str + ds.attrs.get('history', '') raises TypeError
\* when the stored history is not text; date_modified is already written then
Meta_add_timestamps(e, now) ==
    IF e.err THEN e
    ELSE
    LET current_time == S(ToString(now))
        e1 == IF Has(e.ds.attrs, "date_created") THEN e
              ELSE [log_change(e, "attribute_added", "date_created") EXCEPT
                       !.ds = SetAttr(e.ds, "date_created",
                                  IF Has(e.ds.attrs, "time_coverage_start")
                                  THEN e.ds.attrs["time_coverage_start"]
                                  ELSE current_time)]
        e2 == [e1 EXCEPT !.ds = SetAttr(e1.ds, "date_modified", current_time)]
        old == IF Has(e2.ds.attrs, "history") THEN e2.ds.attrs["history"] ELSE S("")
    IN  IF old.t # "str" THEN Raise(e2)
        ELSE [log_change(e2, "attribute_updated", "date_modified and history") EXCEPT
                 !.ds = SetAttr(e2.ds, "history",
                            Str(<<ToString(now), ": Enriched by OOI FAIR Pipeline; ">> \o old.v))]

Meta_add_qc_documentation(e) ==
    IF e.err THEN e
    ELSE IF Has(e.ds.attrs, "quality_control_methodology") THEN e
    ELSE IF \E v \in DataVars(e.ds) : InLower("qc", v) \/ InLower("qartod", v)
    THEN [log_change(e, "attribute_added", "quality_control_methodology") EXCEPT
             !.ds = SetAttr(e.ds, "quality_control_methodology", S("OOI QC procedures"))]
    ELSE e

\* '-'.join(parts) raises TypeError when a part is not text
Meta_add_identifier(e, now) ==
    IF e.err THEN e
    ELSE IF \E k \in {"id", "uuid", "doi", "identifier"} : Has(e.ds.attrs, k) THEN e
    ELSE
    LET parts == SelectSeq(<<"node", "sensor", "method", "stream">>,
                           LAMBDA k : Has(e.ds.attrs, k))
    IN  IF parts # <<>>
        THEN IF \E i \in DOMAIN parts : e.ds.attrs[parts[i]].t # "str" THEN Raise(e)
             ELSE [log_change(e, "attribute_added", "id") EXCEPT
                      !.ds = SetAttr(e.ds, "id", S("joined-parts"))]
        ELSE [log_change(e, "attribute_added", "id (timestamp-based)") EXCEPT
                 !.ds = SetAttr(e.ds, "id", Str(<<"ooi-dataset-", ToString(now)>>))]

MetadataEnricher_enrich(ds, now) ==
    Meta_add_identifier(
        Meta_add_qc_documentation(
            Meta_add_timestamps(
                Meta_enhance_conventions(
                    Meta_add_ooi_defaults(NewEnricher(ds))), now)), now)

MetadataEnricher_validate(e) ==
    \A k \in {"title", "summary", "Conventions", "institution"} : Has(e.ds.attrs, k)


(***************************************************************************)
(* GeospatialExtractor.  Bounds are computed from variable contents:       *)
(* np.isnan raises on non-numeric data (caught by the method's except),    *)
(* all-NaN and empty arrays leave no valid value.                          *)
(***************************************************************************)
RECURSIVE FirstPresent(_, _)
FirstPresent(ds, cands) ==
    IF cands = <<>> THEN "none"
    ELSE IF Has(ds.vars, Head(cands)) THEN Head(cands)
    ELSE FirstPresent(ds, Tail(cands))

Geo_add(e, k) == AddIfMissing(e, k, S("extracted"))

Geo_extract_bounds(e, cands, axis, no_var, no_valid, error) ==
    LET v == FirstPresent(e.ds, cands)
    IN  IF v = "none" THEN log_issue(e, no_var, axis)
        ELSE IF e.ds.vars[v].data = "text" THEN log_issue(e, error, axis)
        ELSE IF e.ds.vars[v].data \in {"nan", "empty"} THEN log_issue(e, no_valid, axis)
        ELSE LET e3 == FoldSeq(Geo_add, e,
                           <<"geospatial_" \o axis \o "_min", "geospatial_" \o axis \o "_max",
                             "geospatial_" \o axis \o "_units">>)
             IN  IF e.ds.vars[v].data = "const" THEN Geo_add(e3, "geospatial_" \o axis) ELSE e3

Geo_extract_latitude_bounds(e) ==
    Geo_extract_bounds(e, <<"LATITUDE", "latitude", "lat", "Latitude">>, "lat",
                       "no_latitude", "no_valid_latitude", "latitude_extraction_error")

Geo_extract_longitude_bounds(e) ==
    Geo_extract_bounds(e, <<"LONGITUDE", "longitude", "lon", "Longitude">>, "lon",
                       "no_longitude", "no_valid_longitude", "longitude_extraction_error")

Geo_extract_time_coverage(e) ==
    LET v == FirstPresent(e.ds, <<"JULD", "time", "TIME", "Time", "REFERENCE_DATE_TIME">>)
    IN  IF v = "none" THEN log_issue(e, "no_time", "time")
        ELSE IF e.ds.vars[v].data = "text" THEN log_issue(e, "time_extraction_error", "time")
        ELSE IF e.ds.vars[v].data = "empty" THEN
                 IF v = "JULD" THEN log_issue(e, "no_valid_times", "time")
                 ELSE log_issue(e, "time_extraction_error", "time")
        ELSE IF e.ds.vars[v].data = "nan" THEN
                 IF v = "JULD" THEN log_issue(e, "no_valid_times", "time")
                 ELSE log_issue(e, "time_extraction_error", "time")
        ELSE FoldSeq(Geo_add, e,
                 <<"time_coverage_start", "time_coverage_end", "time_coverage_duration">>)

Geo_add_geospatial_resolution(e) ==
    LET e2 == Geo_add(Geo_add(e, "geospatial_lat_resolution"), "geospatial_lon_resolution")
        pres_var == IF Has(e.ds.vars, "PRES_ADJUSTED") THEN "PRES_ADJUSTED" ELSE "PRES"
    IN  IF ~(Has(e.ds.vars, "PRES") \/ Has(e.ds.vars, "PRES_ADJUSTED")) THEN e2
        ELSE IF e.ds.vars[pres_var].data = "text"
             THEN log_issue(e2, "vertical_resolution_error", "pressure")
        ELSE IF e.ds.vars[pres_var].data \in {"nan", "empty"} THEN e2
        ELSE FoldSeq(Geo_add, e2,
                 <<"geospatial_vertical_min", "geospatial_vertical_max",
                   "geospatial_vertical_resolution", "geospatial_vertical_units",
                   "geospatial_vertical_positive">>)

GeospatialExtractor_enrich(ds) ==
    Geo_add_geospatial_resolution(Geo_extract_time_coverage(
        Geo_extract_longitude_bounds(Geo_extract_latitude_bounds(NewEnricher(ds)))))

GeospatialExtractor_validate(e) ==
    \A k \in {"geospatial_lat_min", "geospatial_lat_max", "geospatial_lon_min",
              "geospatial_lon_max", "time_coverage_start"} : Has(e.ds.attrs, k)

(***************************************************************************)
(* ArgoMetadataEnricher                                                    *)
(***************************************************************************)
Digits == {"0", "1", "2", "3", "4", "5", "6", "7", "8", "9"}

RECURSIVE Join(_)
Join(cs) == IF cs = <<>> THEN "" ELSE Head(cs) \o Join(Tail(cs))

\* re.search(r'[BRS]?D?(\d{7})') then re.search(r'(\d{7})'): group 1 of the
\* leftmost match is the first window of 7 consecutive digits; "none" if absent
Argo_extract_wmo_number(file) ==
    LET cs == Chars[file]
        hits == {i \in 1..(Len(cs) - 6) : \A j \in i..(i + 6) : cs[j] \in Digits}
    IN  IF hits = {} THEN "none"
        ELSE Join(SubSeq(cs, CHOOSE i \in hits : \A j \in hits : i <= j,
                         (CHOOSE i \in hits : \A j \in hits : i <= j) + 6))

Argo_default(e, k) == AddIfMissing(e, k, S("Argo default"))

Argo_add_identifiers(e, wmo) ==
    LET e1 == IF wmo # "none"
              THEN AddIfMissing(
                       AddIfMissing(
                           AddIfMissing(e, "id", Str(<<"ARGO-BGC-", wmo>>)),
                           "naming_authority", S("org.argo")),
                       "wmo_platform_code", S(wmo))
              ELSE log_issue(e, "no_identifier", "no WMO number")
    IN  AddIfMissing(e1, "doi", S("10.17882/42182"))

\* a source URL and a datasetID are added whether or not there is a WMO number
Argo_add_source_urls_always(e, wmo) ==
    AddIfMissing(
        AddIfMissing(e, "source", Str(<<"https://data-argo.ifremer.fr/dac/aoml/", wmo, "/">>)),
        "datasetID", Str(<<"ArgoFloats-", wmo>>))

Argo_add_source_urls(e, wmo) ==
    IF wmo = "none" THEN e
    ELSE AddIfMissing(
             AddIfMissing(e, "source", Str(<<"https://data-argo.ifremer.fr/dac/aoml/", wmo, "/">>)),
             "datasetID", Str(<<"ArgoFloats-", wmo>>))

ArgoReferences == "https://argo.ucsd.edu, https://www.ocean-ops.org, https://doi.org/10.17882/42182"

\* ds.attrs['references'].lower() raises AttributeError on a numeric attribute
Argo_add_acknowledgment(e) ==
    LET e2 == Argo_default(Argo_default(e, "acknowledgement"), "citation")
    IN  IF Has(e2.ds.attrs, "references")
        THEN LET refs == e2.ds.attrs["references"]
             IN  IF refs.t # "str" THEN Raise(e2)
                 ELSE IF TextContainsLower(refs, "argo.ucsd.edu") THEN e2
                 ELSE [log_change(e2, "attribute_updated", "references") EXCEPT
                          !.ds = SetAttr(e2.ds, "references",
                                     Str(refs.v \o <<"; ", ArgoReferences>>))]
        ELSE [log_change(e2, "attribute_added", "references") EXCEPT
                 !.ds = SetAttr(e2.ds, "references", S(ArgoReferences))]

\* file is the name of the input file, "none" when no file_path was given
ArgoMetadataEnricher_enrich(ds, file) ==
    LET wmo == IF file = "none" THEN "none" ELSE Argo_extract_wmo_number(file)
        e0 == IF file # "none" /\ wmo = "none"
              THEN log_issue(NewEnricher(ds), "no_wmo_number", file)
              ELSE NewEnricher(ds)
        e1 == Argo_add_identifiers(e0, wmo)
        e2 == FoldSeq(Argo_default, e1,
                  <<"program", "project",
                    "creator_name", "creator_type", "creator_institution", "creator_url",
                    "creator_email", "publisher_name", "publisher_type",
                    "publisher_institution", "publisher_url", "publisher_email",
                    "institution", "license">>)
        e3 == Argo_add_acknowledgment(Argo_add_source_urls(e2, wmo))
    IN  IF e3.err THEN e3
        ELSE FoldSeq(Argo_default, e3, <<"keywords", "keywords_vocabulary", "summary">>)

ArgoMetadataEnricher_validate(e) ==
    /\ \A k \in {"program", "license", "creator_name", "publisher_name"} : Has(e.ds.attrs, k)
    /\ \E k \in {"id", "wmo_platform_code", "doi"} : Has(e.ds.attrs, k)


(***************************************************************************)
(* BGCStandardNameMapper                                                   *)
(***************************************************************************)
STANDARD_NAME_MAP ==
    [PRES |-> "sea_water_pressure", PRES_ADJUSTED |-> "sea_water_pressure",
     TEMP |-> "sea_water_temperature", TEMP_ADJUSTED |-> "sea_water_temperature",
     PSAL |-> "sea_water_practical_salinity", PSAL_ADJUSTED |-> "sea_water_practical_salinity",
     PH_IN_SITU_TOTAL |-> "sea_water_ph_reported_on_total_scale",
     PH_IN_SITU_TOTAL_ADJUSTED |-> "sea_water_ph_reported_on_total_scale",
     DOXY |-> "moles_of_oxygen_per_unit_mass_in_sea_water",
     DOXY_ADJUSTED |-> "moles_of_oxygen_per_unit_mass_in_sea_water",
     NITRATE |-> "moles_of_nitrate_per_unit_mass_in_sea_water",
     NITRATE_ADJUSTED |-> "moles_of_nitrate_per_unit_mass_in_sea_water",
     CHLA |-> "mass_concentration_of_chlorophyll_a_in_sea_water",
     CHLA_ADJUSTED |-> "mass_concentration_of_chlorophyll_a_in_sea_water",
     BBP |-> "volume_backwards_scattering_coefficient_of_radiative_flux_in_sea_water",
     BBP532 |-> "volume_backwards_scattering_coefficient_of_radiative_flux_in_sea_water",
     BBP700 |-> "volume_backwards_scattering_coefficient_of_radiative_flux_in_sea_water",
     BBP_ADJUSTED |-> "volume_backwards_scattering_coefficient_of_radiative_flux_in_sea_water",
     LATITUDE |-> "latitude", LONGITUDE |-> "longitude", JULD |-> "time"]

LONG_NAME_KEYS ==
    {"PRES", "PRES_ADJUSTED", "TEMP", "TEMP_ADJUSTED", "PSAL", "PSAL_ADJUSTED",
     "PH_IN_SITU_TOTAL", "PH_IN_SITU_TOTAL_ADJUSTED", "DOXY", "DOXY_ADJUSTED",
     "NITRATE", "NITRATE_ADJUSTED", "CHLA", "CHLA_ADJUSTED", "BBP", "BBP532",
     "BBP700", "LATITUDE", "LONGITUDE", "JULD"}

UNITS_KEYS == LONG_NAME_KEYS

BGC_is_qc_variable(name) ==
    InName("_QC", name) \/ InName("QARTOD", name) \/ InName("ADJUSTED_ERROR", name)

\* var_name.replace('_ADJUSTED', '').replace('_QC', '') as a key of the map, or "none"
BGC_base_name(name) ==
    LET base == Remove(Remove(Chars[name], Chars["_ADJUSTED"]), Chars["_QC"])
        keys == {k \in DOMAIN STANDARD_NAME_MAP : Chars[k] = base}
    IN  IF keys = {} THEN "none" ELSE CHOOSE k \in keys : TRUE

\* the inferred branch writes standard_name without a presence check
BGC_infer_standard_name(e, n) ==
    LET base == BGC_base_name(n)
    IN  IF base = "none" THEN e
        ELSE [log_change(e, "attribute_added", n \o ": standard_name (inferred)") EXCEPT
                 !.ds = SetVarAttr(e.ds, n, "standard_name", STANDARD_NAME_MAP[base])]

BGC_enrich_variable(e, n) ==
    LET std(x) ==
            IF n \in DOMAIN STANDARD_NAME_MAP
            THEN AddVarAttrIfMissing(x, n, "standard_name", STANDARD_NAME_MAP[n])
            ELSE IF ~BGC_is_qc_variable(n) THEN BGC_infer_standard_name(x, n)
            ELSE x
        long_name(x) ==
            IF n \in LONG_NAME_KEYS \/ ~BGC_is_qc_variable(n)
            THEN AddVarAttrIfMissing(x, n, "long_name",
                                     IF n \in LONG_NAME_KEYS THEN "mapped" ELSE "generated")
            ELSE x
        units(x) ==
            IF n \in UNITS_KEYS /\ n # "JULD"
            THEN AddVarAttrIfMissing(x, n, "units", "mapped")
            ELSE x
        axis(x) ==
            IF n \in {"LATITUDE", "LONGITUDE", "JULD"}
            THEN AddVarAttrIfMissing(x, n, "axis",
                     IF n = "LATITUDE" THEN "Y" ELSE IF n = "LONGITUDE" THEN "X" ELSE "T")
            ELSE x
        comment(x) ==
            IF InName("_ADJUSTED", n)
            THEN AddVarAttrIfMissing(x, n, "comment", "adjusted")
            ELSE x
    IN  Bind(Bind(Bind(Bind(Bind(e, std), long_name), units), axis), comment)

BGCStandardNameMapper_enrich(ds) ==
    FoldSeq(BGC_enrich_variable, NewEnricher(ds),
            InOrder({n \in DOMAIN ds.vars : ~ds.vars[n].dim}))

BGCStandardNameMapper_validate(e) ==
    \A v \in {"PRES", "TEMP", "PSAL", "PH_IN_SITU_TOTAL", "DOXY", "NITRATE", "CHLA"} :
        LET adj == v \o "_ADJUSTED"
            chk == IF Has(e.ds.vars, v) THEN v
                   ELSE IF Has(e.ds.vars, adj) THEN adj ELSE "none"
        IN  chk = "none" \/ Has(e.ds.vars[chk].attrs, "standard_name")

(***************************************************************************)
(* AnomalyEnricher.  env is what the process finds at run time:            *)
(*   module  - qc.ph_anomaly_detector imports (DETECTOR_AVAILABLE)         *)
(*   sklearn - scikit-learn imports (SKLEARN_AVAILABLE)                    *)
(*   model, scaler - the two artifact files exist                          *)
(* detector is "none" (load from disk), "trained" or "untrained".          *)
(***************************************************************************)
PH_VARS == <<"PH_IN_SITU_TOTAL_ADJUSTED", "PH_IN_SITU_TOTAL">>
PRES_VARS == <<"PRES_ADJUSTED", "PRES">>
TEMP_VARS == <<"TEMP_ADJUSTED", "TEMP", "TEMP_DOXY_ADJUSTED", "TEMP_DOXY">>

Anom_check_required_variables(e) ==
    IF \E c \in {PH_VARS, PRES_VARS, TEMP_VARS} : FirstPresent(e.ds, c) = "none"
    THEN log_issue(e, "missing_variables", "required variables not found")
    ELSE e

\* result: [e, ready]; PHAnomalyDetector() raises ImportError without
\* scikit-learn, load_model raises FileNotFoundError without both files
Anom_load_detector(e, env, detector, skip_if_no_model) ==
    IF ~env.module
    THEN [e |-> log_issue(e, "missing_dependency", "scikit-learn"), ready |-> FALSE]
    ELSE IF detector = "none"
    THEN IF ~env.sklearn THEN [e |-> Raise(e), ready |-> FALSE]
         ELSE IF ~(env.model /\ env.scaler)
              THEN IF skip_if_no_model
                   THEN [e |-> log_issue(e, "no_model", "model not found"), ready |-> FALSE]
                   ELSE [e |-> Raise(e), ready |-> FALSE]
              ELSE [e |-> e, ready |-> TRUE]
    ELSE [e |-> e, ready |-> detector = "trained"]

FlagAttrs == [long_name |-> "pH anomaly detection flag", standard_name |-> "quality_flag",
              flag_values |-> "-1, 1", flag_meanings |-> "anomaly normal",
              comment |-> "IsolationForest", source_variable |-> "ph"]
ScoreAttrs == [long_name |-> "pH anomaly score", comment |-> "IsolationForest",
               units |-> "1", source_variable |-> "ph"]

\* ds[name] = xr.DataArray(...): the variable is created or replaced
Anom_set_variable(ds, name, attrs) ==
    [ds EXCEPT !.vars = Put(ds.vars, name,
        [coord |-> FALSE, dim |-> FALSE, attrs |-> attrs, data |-> "spread"])]

Anom_add_outputs(e) ==
    LET e1 == [log_change(e, "variable_added", "PH_ANOMALY_FLAG") EXCEPT
                  !.ds = Anom_set_variable(e.ds, "PH_ANOMALY_FLAG", FlagAttrs)]
        e2 == [log_change(e1, "variable_added", "PH_ANOMALY_SCORE") EXCEPT
                  !.ds = Anom_set_variable(e1.ds, "PH_ANOMALY_SCORE", ScoreAttrs)]
        d3 == SetAttr(SetAttr(SetAttr(SetAttr(e2.ds,
                  "anomaly_detection_method", S("IsolationForest (scikit-learn)")),
                  "anomaly_detection_variables", S("PH_IN_SITU_TOTAL, PRES, TEMP")),
                  "anomaly_count", Num("count")),
                  "anomaly_percentage", Num("percentage"))
    IN  [log_change(e2, "attribute_added", "anomaly detection metadata") EXCEPT !.ds = d3]

AnomalyEnricher_enrich(ds, env, detector, skip_if_no_model) ==
    LET e0 == Anom_check_required_variables(NewEnricher(ds))
        ld == Anom_load_detector(e0, env, detector, skip_if_no_model)
        inputs == {FirstPresent(ds, PH_VARS), FirstPresent(ds, PRES_VARS),
                   FirstPresent(ds, TEMP_VARS)}
    IN  IF e0.issues # <<>> THEN e0
        ELSE IF ~ld.ready THEN ld.e
        ELSE IF \E v \in inputs : ds.vars[v].data = "text"
             THEN log_issue(ld.e, "detection_error", "detect failed")
        ELSE Anom_add_outputs(ld.e)

AnomalyEnricher_validate(e) ==
    IF ~Has(e.ds.vars, "PH_ANOMALY_FLAG") THEN e.issues # <<>>
    ELSE \A k \in {"long_name", "flag_values", "flag_meanings"} :
             Has(e.ds.vars["PH_ANOMALY_FLAG"].attrs, k)


(***************************************************************************)
(* Exact arithmetic for scores: a score is a fraction <<num, den>> in      *)
(* lowest terms, den > 0.                                                  *)
(***************************************************************************)
RECURSIVE GCD(_, _)
GCD(a, b) == IF b = 0 THEN a ELSE GCD(b, a % b)

Q(n, d) == LET g == GCD(IF n < 0 THEN -n ELSE n, d) IN <<n \div g, d \div g>>
QInt(n) == <<n, 1>>
QAdd(a, b) == Q(a[1] * b[2] + b[1] * a[2], a[2] * b[2])
QMul(a, b) == Q(a[1] * b[1], a[2] * b[2])
QLeq(a, b) == a[1] * b[2] <= b[1] * a[2]
QLt(a, b) == a[1] * b[2] < b[1] * a[2]

RECURSIVE QSum(_)
QSum(qs) == IF qs = <<>> THEN QInt(0) ELSE QAdd(Head(qs), QSum(Tail(qs)))

RECURSIVE SumSeq(_)
SumSeq(xs) == IF xs = <<>> THEN 0 ELSE Head(xs) + SumSeq(Tail(xs))

(***************************************************************************)
(* fair_metrics: the rubric tables, in definition order                    *)
(***************************************************************************)
FINDABLE_METRICS ==
    << [name |-> "unique_identifier", points |-> 5, check_type |-> "any",
        required_attrs |-> <<"id", "uuid", "doi", "identifier">>],
       [name |-> "rich_metadata", points |-> 10, check_type |-> "all",
        required_attrs |-> <<"title", "summary", "keywords", "creator_name",
                             "institution", "project">>],
       [name |-> "searchable_metadata", points |-> 5, check_type |-> "most",
        required_attrs |-> <<"geospatial_lat_min", "geospatial_lat_max",
                             "geospatial_lon_min", "geospatial_lon_max",
                             "time_coverage_start", "time_coverage_end">>],
       [name |-> "metadata_standard", points |-> 5, check_type |-> "any",
        required_attrs |-> <<"Conventions", "Metadata_Conventions">>] >>

ACCESSIBLE_METRICS ==
    << [name |-> "access_protocol", points |-> 5, check_type |-> "any",
        required_attrs |-> <<"sourceUrl", "datasetID">>],
       [name |-> "contact_info", points |-> 5, check_type |-> "any",
        required_attrs |-> <<"creator_email", "publisher_email", "contact">>],
       [name |-> "access_constraints", points |-> 5, check_type |-> "any",
        required_attrs |-> <<"license", "accessConstraints">>],
       [name |-> "authentication_metadata", points |-> 5, check_type |-> "any",
        required_attrs |-> <<"metadata_link", "references">>] >>

INTEROPERABLE_METRICS ==
    << [name |-> "cf_compliance", points |-> 15, check_type |-> "cf",
        required_attrs |-> <<>>],
       [name |-> "standard_vocabulary", points |-> 5, check_type |-> "variables",
        required_attrs |-> <<"standard_name", "long_name">>],
       [name |-> "data_format", points |-> 5, check_type |-> "format",
        required_attrs |-> <<>>],
       [name |-> "coordinate_system", points |-> 5, check_type |-> "coords",
        required_attrs |-> <<"lat", "lon", "time", "depth">>] >>

REUSABLE_METRICS ==
    << [name |-> "clear_license", points |-> 5, check_type |-> "all",
        required_attrs |-> <<"license">>],
       [name |-> "data_provenance", points |-> 8, check_type |-> "most",
        required_attrs |-> <<"source", "processing_level", "history",
                             "creator_institution", "date_created">>],
       [name |-> "quality_control", points |-> 7, check_type |-> "qc",
        required_attrs |-> <<>>],
       [name |-> "community_standards", points |-> 5, check_type |-> "most",
        required_attrs |-> <<"Conventions", "featureType", "cdm_data_type">>] >>

PossiblePoints(table) == SumSeq([i \in DOMAIN table |-> table[i].points])

\* calculate_<principle>_score without the division by the possible points
calculate_score_no_ratio(metrics, table, allocation) ==
    QMul(QSum([i \in DOMAIN metrics |-> metrics[i].points_earned]), QInt(allocation))

\* calculate_<principle>_score: (earned / possible) * allocation
calculate_score(metrics, table, allocation) ==
    QMul(QMul(QSum([i \in DOMAIN metrics |-> metrics[i].points_earned]),
              <<1, PossiblePoints(table)>>),
         QInt(allocation))

(***************************************************************************)
(* FAIRAssessor                                                            *)
(***************************************************************************)
MetricScore(name, earned, possible, status, details) ==
    [name |-> name, points_earned |-> earned, points_possible |-> possible,
     status |-> status, details |-> details]

evaluate_variable_attribute(ds, m) ==
    LET vars == DataVars(ds)
        ok == {v \in vars : \E i \in DOMAIN m.required_attrs :
                                Has(ds.vars[v].attrs, m.required_attrs[i])}
        total == Cardinality(vars)
        n == Cardinality(ok)
    IN  IF total = 0
        THEN MetricScore(m.name, QInt(0), m.points, "fail", "No variables found")
        ELSE MetricScore(m.name, Q(n * m.points, total), m.points,
                 IF 10 * n >= 9 * total THEN "pass"
                 ELSE IF 2 * n >= total THEN "partial" ELSE "fail",
                 "variables have standard attributes")

\* _evaluate_attribute_metric with the `most` threshold at two thirds exactly
evaluate_attribute_metric_two_thirds(ds, m) ==
    LET req == m.required_attrs
        found == Cardinality({i \in DOMAIN req : Has(ds.attrs, req[i])})
        n == Len(req)
        part == MetricScore(m.name, Q(found * m.points, n), m.points,
                    IF found > 0 THEN "partial" ELSE "fail", "Missing")
    IN  CASE m.check_type = "any" ->
                IF found > 0 THEN MetricScore(m.name, QInt(m.points), m.points, "pass", "Found")
                ELSE MetricScore(m.name, QInt(0), m.points, "fail", "Missing")
          [] m.check_type = "all" ->
                IF found = n
                THEN MetricScore(m.name, QInt(m.points), m.points, "pass",
                                 "All required attributes present")
                ELSE part
          [] m.check_type = "most" ->
                IF 3 * found >= 2 * n
                THEN MetricScore(m.name, QInt(m.points), m.points, "pass", "Found")
                ELSE part
          [] m.check_type = "variables" -> evaluate_variable_attribute(ds, m)
          [] OTHER -> MetricScore(m.name, QInt(0), m.points, "fail", "Unknown check type")

evaluate_attribute_metric(ds, m) ==
    LET req == m.required_attrs
        found == Cardinality({i \in DOMAIN req : Has(ds.attrs, req[i])})
        n == Len(req)
        part == MetricScore(m.name, Q(found * m.points, n), m.points,
                    IF found > 0 THEN "partial" ELSE "fail", "Missing")
    IN  CASE m.check_type = "any" ->
                IF found > 0 THEN MetricScore(m.name, QInt(m.points), m.points, "pass", "Found")
                ELSE MetricScore(m.name, QInt(0), m.points, "fail", "Missing")
          [] m.check_type = "all" ->
                IF found = n
                THEN MetricScore(m.name, QInt(m.points), m.points, "pass",
                                 "All required attributes present")
                ELSE part
          [] m.check_type = "most" ->
                \* threshold = len(required) * 0.67
                IF 100 * found >= 67 * n
                THEN MetricScore(m.name, QInt(m.points), m.points, "pass", "Found")
                ELSE part
          [] m.check_type = "variables" -> evaluate_variable_attribute(ds, m)
          [] OTHER -> MetricScore(m.name, QInt(0), m.points, "fail", "Unknown check type")

CoordKeywords == {"time", "lat", "latitude", "lon", "longitude", "depth", "altitude"}

\* _evaluate_cf_compliance matching coordinate keywords without v.lower()
evaluate_cf_compliance_case_sensitive(ds) ==
    LET m == INTEROPERABLE_METRICS[1]
        vars == DataVars(ds)
        total == Cardinality(vars)
        conv == IF Has(ds.attrs, "Conventions") /\ TextContains(ds.attrs["Conventions"], "CF")
                THEN QInt(3) ELSE QInt(0)
        units == IF total = 0 THEN QInt(0)
                 ELSE Q(4 * Cardinality({v \in vars : Has(ds.vars[v].attrs, "units")}), total)
        found_coords == Cardinality({v \in DOMAIN ds.vars :
                                        \E c \in CoordKeywords : InName(c, v)})
        coords == IF found_coords >= 2 THEN QInt(4)
                  ELSE IF found_coords >= 1 THEN QInt(2) ELSE QInt(0)
        std == IF total = 0 THEN QInt(0)
               ELSE Q(4 * Cardinality({v \in vars : Has(ds.vars[v].attrs, "standard_name")}),
                      total)
        earned == QAdd(QAdd(QAdd(conv, units), coords), std)
    IN  MetricScore(m.name, earned, m.points,
            IF QLeq(Q(9 * m.points, 10), earned) THEN "pass"
            ELSE IF QLeq(Q(m.points, 2), earned) THEN "partial" ELSE "fail",
            "CF compliance")

evaluate_cf_compliance(ds) ==
    LET m == INTEROPERABLE_METRICS[1]
        vars == DataVars(ds)
        total == Cardinality(vars)
        conv == IF Has(ds.attrs, "Conventions") /\ TextContains(ds.attrs["Conventions"], "CF")
                THEN QInt(3) ELSE QInt(0)
        units == IF total = 0 THEN QInt(0)
                 ELSE Q(4 * Cardinality({v \in vars : Has(ds.vars[v].attrs, "units")}), total)
        found_coords == Cardinality({v \in DOMAIN ds.vars :
                                        \E c \in CoordKeywords : InLower(c, v)})
        coords == IF found_coords >= 2 THEN QInt(4)
                  ELSE IF found_coords >= 1 THEN QInt(2) ELSE QInt(0)
        std == IF total = 0 THEN QInt(0)
               ELSE Q(4 * Cardinality({v \in vars : Has(ds.vars[v].attrs, "standard_name")}),
                      total)
        earned == QAdd(QAdd(QAdd(conv, units), coords), std)
    IN  MetricScore(m.name, earned, m.points,
            IF QLeq(Q(9 * m.points, 10), earned) THEN "pass"
            ELSE IF QLeq(Q(m.points, 2), earned) THEN "partial" ELSE "fail",
            "CF compliance")

\* Path.suffix of a file name: from the last dot, when the dot is not leading
Suffix(cs) ==
    LET dots == {i \in 2..Len(cs) : cs[i] = "."}
    IN  IF dots = {} THEN <<>>
        ELSE SubSeq(cs, CHOOSE i \in dots : \A j \in dots : j <= i, Len(cs))

\* Path.stem
Stem(cs) == SubSeq(cs, 1, Len(cs) - Len(Suffix(cs)))

evaluate_data_format(path) ==
    LET m == INTEROPERABLE_METRICS[3]
    IN  IF Suffix(path) \in {<<".", "n", "c">>, <<".", "n", "c", "4">>,
                             <<".", "n", "e", "t", "c", "d", "f">>}
        THEN MetricScore(m.name, QInt(m.points), m.points, "pass", "Standard NetCDF format")
        ELSE MetricScore(m.name, QInt(0), m.points, "fail", "Non-standard format")

evaluate_coordinate_system(ds) ==
    LET m == INTEROPERABLE_METRICS[4]
        req == m.required_attrs
        found == Cardinality({i \in DOMAIN req : \E v \in DOMAIN ds.vars : InLower(req[i], v)})
    IN  MetricScore(m.name, Q(found * m.points, Len(req)), m.points,
            IF found = Len(req) THEN "pass" ELSE IF found >= 2 THEN "partial" ELSE "fail",
            "Found coordinates")

\* QC flag variables are worth 5 points instead of 4
evaluate_quality_control_five_points(ds) ==
    LET m == REUSABLE_METRICS[3]
        has_qc_vars == \E v \in DataVars(ds) : InLower("qc", v) \/ InLower("qartod", v)
        has_qc_attrs == \E a \in DOMAIN ds.attrs : InLower("quality", a) \/ InLower("qc", a)
        earned == (IF has_qc_vars THEN 5 ELSE 0) + (IF has_qc_attrs THEN 3 ELSE 0)
    IN  MetricScore(m.name, QInt(earned), m.points,
            IF 10 * earned >= 8 * m.points THEN "pass"
            ELSE IF 10 * earned >= 4 * m.points THEN "partial" ELSE "fail",
            "Found QC variables")

evaluate_quality_control(ds) ==
    LET m == REUSABLE_METRICS[3]
        has_qc_vars == \E v \in DataVars(ds) : InLower("qc", v) \/ InLower("qartod", v)
        has_qc_attrs == \E a \in DOMAIN ds.attrs : InLower("quality", a) \/ InLower("qc", a)
        earned == (IF has_qc_vars THEN 4 ELSE 0) + (IF has_qc_attrs THEN 3 ELSE 0)
    IN  MetricScore(m.name, QInt(earned), m.points,
            IF 10 * earned >= 8 * m.points THEN "pass"
            ELSE IF 10 * earned >= 4 * m.points THEN "partial" ELSE "fail",
            "Found QC variables")

assess_findable(ds) == [i \in DOMAIN FINDABLE_METRICS |->
                           evaluate_attribute_metric(ds, FINDABLE_METRICS[i])]

assess_accessible(ds) == [i \in DOMAIN ACCESSIBLE_METRICS |->
                             evaluate_attribute_metric(ds, ACCESSIBLE_METRICS[i])]

assess_interoperable(ds, path) ==
    << evaluate_cf_compliance(ds),
       evaluate_variable_attribute(ds, INTEROPERABLE_METRICS[2]),
       evaluate_data_format(path),
       evaluate_coordinate_system(ds) >>

assess_reusable(ds) ==
    << evaluate_attribute_metric(ds, REUSABLE_METRICS[1]),
       evaluate_attribute_metric(ds, REUSABLE_METRICS[2]),
       evaluate_quality_control(ds),
       evaluate_attribute_metric(ds, REUSABLE_METRICS[4]) >>

\* `'CF' in conventions` raises TypeError when Conventions is not text
AssessRaises(ds) == Has(ds.attrs, "Conventions") /\ ds.attrs["Conventions"].t # "str"

\* FAIRAssessor.assess on a dataset stored under the file name path
assess(ds, path) ==
    LET fd == assess_findable(ds)
        ad == assess_accessible(ds)
        id == assess_interoperable(ds, path)
        rd == assess_reusable(ds)
        f == calculate_score(fd, FINDABLE_METRICS, 25)
        a == calculate_score(ad, ACCESSIBLE_METRICS, 20)
        i == calculate_score(id, INTEROPERABLE_METRICS, 30)
        r == calculate_score(rd, REUSABLE_METRICS, 25)
    IN  [findable_score |-> f, accessible_score |-> a,
         interoperable_score |-> i, reusable_score |-> r,
         total_score |-> QAdd(QAdd(QAdd(f, a), i), r),
         findable_details |-> fd, accessible_details |-> ad,
         interoperable_details |-> id, reusable_details |-> rd]


\* FAIRScore(...) as a caller builds it: the details lists default to empty
FAIRScore(f, a, i, r, total) ==
    [findable_score |-> f, accessible_score |-> a,
     interoperable_score |-> i, reusable_score |-> r,
     total_score |-> total,
     findable_details |-> <<>>, accessible_details |-> <<>>,
     interoperable_details |-> <<>>, reusable_details |-> <<>>]

\* a grade property whose comparisons would be strict
grade_exclusive(score) ==
    IF QLt(QInt(90), score.total_score) THEN "A"
    ELSE IF QLt(QInt(80), score.total_score) THEN "B"
    ELSE IF QLt(QInt(70), score.total_score) THEN "C"
    ELSE IF QLt(QInt(60), score.total_score) THEN "D"
    ELSE "F"

\* FAIRScore.grade
grade(score) ==
    IF QLeq(QInt(90), score.total_score) THEN "A"
    ELSE IF QLeq(QInt(80), score.total_score) THEN "B"
    ELSE IF QLeq(QInt(70), score.total_score) THEN "C"
    ELSE IF QLeq(QInt(60), score.total_score) THEN "D"
    ELSE "F"

\* recommendations that would also fire at exactly 80% of an allocation
recommendations_at_threshold(score) ==
    (IF QLeq(score.findable_score, QInt(20))
     THEN <<[priority |-> "critical", category |-> "Findability", items |-> 3]>> ELSE <<>>)
    \o (IF QLeq(score.accessible_score, QInt(16))
        THEN <<[priority |-> "high", category |-> "Accessibility", items |-> 3]>> ELSE <<>>)
    \o (IF QLeq(score.interoperable_score, QInt(24))
        THEN <<[priority |-> "critical", category |-> "Interoperability", items |-> 3]>> ELSE <<>>)
    \o (IF QLeq(score.reusable_score, QInt(20))
        THEN <<[priority |-> "high", category |-> "Reusability", items |-> 3]>> ELSE <<>>)

\* get_improvement_recommendations: the (priority, category) of each tuple, in
\* the order they are appended; every tuple carries three fixed action items
get_improvement_recommendations(score) ==
    (IF QLt(score.findable_score, QInt(20))
     THEN <<[priority |-> "critical", category |-> "Findability", items |-> 3]>> ELSE <<>>)
    \o (IF QLt(score.accessible_score, QInt(16))
        THEN <<[priority |-> "high", category |-> "Accessibility", items |-> 3]>> ELSE <<>>)
    \o (IF QLt(score.interoperable_score, QInt(24))
        THEN <<[priority |-> "critical", category |-> "Interoperability", items |-> 3]>> ELSE <<>>)
    \o (IF QLt(score.reusable_score, QInt(20))
        THEN <<[priority |-> "high", category |-> "Reusability", items |-> 3]>> ELSE <<>>)

(***************************************************************************)
(* Pipeline objects: FAIREnrichmentPipeline ("generic") and                *)
(* ArgoEnrichmentPipeline ("argo").                                        *)
(***************************************************************************)
VARIABLES
    kind,        \* which pipeline class the object is
    input_file,  \* name of the input file
    input,       \* [readable, ds]: what xr.open_dataset finds at the input path
    env,         \* what the anomaly detector finds in the process and on disk
    loaded,      \* self.dataset is not None
    dataset,     \* self.dataset
    enrichers,   \* self.enrichers: the enricher objects kept, as [cls, changes, issues]
    summary,     \* self.summary: class name -> get_summary() result
    pc,          \* "idle", or "running" while run() is inside its loop
    todo,        \* names run() still has to process
    last,        \* how the last call ended: "none", "returned", "raised"
    out_exists,  \* a file exists at the output path
    out,         \* the dataset stored in that file
    now,         \* the clock read by datetime.utcnow()
    calls,       \* per run() call made: [names, explicit, result], result "running", "returned" or "raised"
    hist,        \* per processed name: [run, name, outcome]
    det,         \* a PHAnomalyDetector object and how its last call ended
    anom,        \* an AnomalyEnricher built by hand: its constructor arguments and validate()
    report,      \* what a FAIRAssessor call or a FAIRScore built by hand gave
    checker      \* a CFComplianceChecker object and what its last call returned

vars == <<kind, input_file, input, env, loaded, dataset, enrichers, summary,
          pc, todo, last, out_exists, out, now, calls, hist, det, anom, report, checker>>

\* no CFComplianceChecker has been constructed
NoChecker == [built |-> FALSE]

\* number of run() calls made
runs == Len(calls)

\* bounds of the exploration
MaxNames == 2
MaxRuns == 1
MaxApply == 2

DefaultEnrichers ==
    [generic |-> <<"coordinate", "variable", "metadata">>,
     argo |-> <<"geospatial", "argo_metadata", "anomaly", "bgc_names", "metadata">>]

\* enricher_map of each run(): registered name -> enricher class
enricher_map ==
    [generic |-> [coordinate |-> "CoordinateEnricher", variable |-> "VariableEnricher",
                  metadata |-> "MetadataEnricher"],
     argo |-> [geospatial |-> "GeospatialExtractor", argo_metadata |-> "ArgoMetadataEnricher",
               anomaly |-> "AnomalyEnricher", bgc_names |-> "BGCStandardNameMapper",
               metadata |-> "MetadataEnricher"]]

EnricherClasses ==
    {"CoordinateEnricher", "VariableEnricher", "MetadataEnricher", "GeospatialExtractor",
     "ArgoMetadataEnricher", "AnomalyEnricher", "BGCStandardNameMapper"}

\* construct an enricher of class cls on ds the way the pipelines do, and enrich()
Enrich(cls, ds, file, environment, clock) ==
    CASE cls = "CoordinateEnricher" -> CoordinateEnricher_enrich(ds)
      [] cls = "VariableEnricher" -> VariableEnricher_enrich(ds)
      [] cls = "MetadataEnricher" -> MetadataEnricher_enrich(ds, clock)
      [] cls = "GeospatialExtractor" -> GeospatialExtractor_enrich(ds)
      [] cls = "ArgoMetadataEnricher" -> ArgoMetadataEnricher_enrich(ds, file)
      [] cls = "AnomalyEnricher" -> AnomalyEnricher_enrich(ds, environment, "none", TRUE)
      [] cls = "BGCStandardNameMapper" -> BGCStandardNameMapper_enrich(ds)

Validate(cls, e) ==
    CASE cls = "CoordinateEnricher" -> CoordinateEnricher_validate(e)
      [] cls = "VariableEnricher" -> VariableEnricher_validate(e)
      [] cls = "MetadataEnricher" -> MetadataEnricher_validate(e)
      [] cls = "GeospatialExtractor" -> GeospatialExtractor_validate(e)
      [] cls = "ArgoMetadataEnricher" -> ArgoMetadataEnricher_validate(e)
      [] cls = "AnomalyEnricher" -> AnomalyEnricher_validate(e)
      [] cls = "BGCStandardNameMapper" -> BGCStandardNameMapper_validate(e)

\* BaseEnricher.get_summary
get_summary(en) ==
    [enricher |-> en.cls, changes_made |-> Len(en.changes), issues_found |-> Len(en.issues),
     changes |-> en.changes, issues |-> en.issues]

_count_total_changes(ens) == SumSeq([i \in DOMAIN ens |-> get_summary(ens[i]).changes_made])

\* output path given no output_path argument: <stem>_enriched<suffix>
DefaultOutputPath(file) ==
    Stem(Chars[file]) \o <<"_", "e", "n", "r", "i", "c", "h", "e", "d">> \o Suffix(Chars[file])

get_enrichment_summary ==
    [input_file |-> input_file,
     output_file |-> DefaultOutputPath(input_file),
     enrichers_run |-> Len(enrichers),
     total_changes |-> _count_total_changes(enrichers),
     enrichers |-> summary]

EmptyFn == [x \in {} |-> x]
NoDataset == [attrs |-> EmptyFn, vars |-> EmptyFn]

\* no PHAnomalyDetector, hand-built AnomalyEnricher or FAIRAssessor is in play
NoDetector == [built |-> FALSE]
NoAnomalyEnricher == [built |-> FALSE]
NoReport == [kind |-> "none"]

\* load_dataset(): xr.open_dataset(self.input_path); raises on an unreadable file
LoadDataset ==
    /\ pc = "idle"
    /\ IF input.readable
       THEN /\ loaded' = TRUE
            /\ dataset' = input.ds
            /\ last' = "returned"
       ELSE /\ UNCHANGED <<checker, loaded, dataset>>
            /\ last' = "raised"
    /\ UNCHANGED <<checker, det, anom, report, kind, input_file, input, env, enrichers, summary, pc, todo,
                   out_exists, out, now, calls, hist>>

\* run(enrichers) up to its loop: load when nothing is loaded, then walk `order`.
\* names is the list the call works from, explicit whether the caller passed it
StartRun(names, explicit, order) ==
    /\ pc = "idle"
    /\ runs < MaxRuns
    /\ IF ~loaded /\ ~input.readable
       THEN /\ last' = "raised"
            /\ calls' = Append(calls, [names |-> names, explicit |-> explicit,
                                       result |-> "raised"])
            /\ UNCHANGED <<checker, loaded, dataset, pc, todo>>
       ELSE /\ calls' = Append(calls, [names |-> names, explicit |-> explicit,
                                       result |-> "running"])
            /\ loaded' = TRUE
            /\ dataset' = IF loaded THEN dataset ELSE input.ds
            /\ pc' = "running"
            /\ todo' = order
            /\ last' = "none"
    /\ UNCHANGED <<checker, det, anom, report, kind, input_file, input, env, enrichers, summary,
                   out_exists, out, now, hist>>

\* a run() that would walk the registered names of the list in the fixed order,
\* each once, before the names it does not know
run_in_fixed_order(names, explicit) ==
    StartRun(names, explicit,
             SelectSeq(DefaultEnrichers[kind], LAMBDA n : \E i \in DOMAIN names : names[i] = n)
                 \o SelectSeq(names, LAMBDA n : n \notin DOMAIN enricher_map[kind]))

\* `for enricher_name in enrichers:` walks the list as given
run(names, explicit) == StartRun(names, explicit, names)

\* an except branch that would keep the enricher that raised
Aborted_enricher_kept(name) ==
    /\ pc' = "idle"
    /\ todo' = <<>>
    /\ last' = "raised"
    /\ calls' = [calls EXCEPT ![Len(calls)].result = "raised"]
    /\ hist' = Append(hist, [run |-> runs, name |-> name, outcome |-> "raised"])
    /\ enrichers' = Append(enrichers, [cls |-> name, changes |-> <<>>, issues |-> <<>>])
    /\ UNCHANGED <<checker, dataset, summary>>

\* _run_enricher, except branch: log the error and re-raise out of run()
Aborted(name) ==
    /\ pc' = "idle"
    /\ todo' = <<>>
    /\ last' = "raised"
    /\ calls' = [calls EXCEPT ![Len(calls)].result = "raised"]
    /\ hist' = Append(hist, [run |-> runs, name |-> name, outcome |-> "raised"])
    /\ UNCHANGED <<checker, dataset, enrichers, summary>>

\* a lookup enricher_map[name] without the membership test: KeyError out of run()
raise_unknown(name) == Aborted(name) /\ UNCHANGED now

\* a name that is not in enricher_map: logger.warning and continue
SkipUnknown(name) ==
    /\ todo' = Tail(todo)
    /\ hist' = Append(hist, [run |-> runs, name |-> name, outcome |-> "unknown"])
    /\ UNCHANGED <<checker, dataset, enrichers, summary, pc, last, now, calls>>

\* a _run_enricher that would call enrich() without keeping what it returns
Completed_result_dropped(name, cls, e) ==
    /\ dataset' = dataset
    /\ enrichers' = Append(enrichers, [cls |-> cls, changes |-> e.changes, issues |-> e.issues])
    /\ summary' = Put(summary, cls,
                      get_summary([cls |-> cls, changes |-> e.changes, issues |-> e.issues]))
    /\ todo' = Tail(todo)
    /\ hist' = Append(hist, [run |-> runs, name |-> name,
                             outcome |-> IF Validate(cls, e) THEN "ok" ELSE "invalid"])
    /\ UNCHANGED <<checker, pc, last, calls>>

\* a _run_enricher that would raise when validate() returns False
Completed_if_valid(name, cls, e) ==
    IF Validate(cls, e)
    THEN /\ dataset' = e.ds
         /\ enrichers' = Append(enrichers, [cls |-> cls, changes |-> e.changes, issues |-> e.issues])
         /\ summary' = Put(summary, cls,
                           get_summary([cls |-> cls, changes |-> e.changes, issues |-> e.issues]))
         /\ todo' = Tail(todo)
         /\ hist' = Append(hist, [run |-> runs, name |-> name, outcome |-> "ok"])
         /\ UNCHANGED <<checker, pc, last, calls>>
    ELSE Aborted(name)

\* _run_enricher, try body once enrich() has returned e: keep the dataset, validate
\* (a failure is only logged), keep the enricher and its summary
Completed(name, cls, e) ==
    /\ dataset' = e.ds
    /\ enrichers' = Append(enrichers, [cls |-> cls, changes |-> e.changes, issues |-> e.issues])
    /\ summary' = Put(summary, cls,
                      get_summary([cls |-> cls, changes |-> e.changes, issues |-> e.issues]))
    /\ todo' = Tail(todo)
    /\ hist' = Append(hist, [run |-> runs, name |-> name,
                             outcome |-> IF Validate(cls, e) THEN "ok" ELSE "invalid"])
    /\ UNCHANGED <<checker, pc, last, calls>>

_run_enricher(name) ==
    \E cls \in {enricher_map[kind][name]} :
        \E e \in {Enrich(cls, dataset, input_file, env, now)} :
            /\ now' = now + 1
            /\ IF e.err THEN Aborted(name) ELSE Completed(name, cls, e)

\* one iteration of the loop in run()
RunStep ==
    /\ pc = "running"
    /\ todo # <<>>
    /\ IF Head(todo) \notin DOMAIN enricher_map[kind]
       THEN SkipUnknown(Head(todo))
       ELSE _run_enricher(Head(todo))
    /\ UNCHANGED <<checker, det, anom, report, kind, input_file, input, env, loaded, out_exists, out>>

\* run() leaves its loop and returns self.dataset
RunReturn ==
    /\ pc = "running"
    /\ todo = <<>>
    /\ pc' = "idle"
    /\ last' = "returned"
    /\ calls' = [calls EXCEPT ![Len(calls)].result = "returned"]
    /\ UNCHANGED <<checker, det, anom, report, kind, input_file, input, env, loaded, dataset, enrichers, summary,
                   todo, out_exists, out, now, hist>>

\* save(): self.dataset.to_netcdf(self.output_path); raises when nothing is loaded
Save ==
    /\ pc = "idle"
    /\ IF loaded
       THEN /\ out_exists' = TRUE
            /\ out' = dataset
            /\ last' = "returned"
       ELSE /\ UNCHANGED <<checker, out_exists, out>>
            /\ last' = "raised"
    /\ UNCHANGED <<checker, det, anom, report, kind, input_file, input, env, loaded, dataset, enrichers, summary,
                   pc, todo, now, calls, hist>>


(***************************************************************************)
(* Datasets explored                                                       *)
(***************************************************************************)
Levels == {"bare", "units", "full"}

VarAttrs(level) ==
    CASE level = "bare" -> EmptyFn
      [] level = "units" -> [units |-> "given", long_name |-> "given"]
      [] level = "full" -> [units |-> "given", long_name |-> "given",
                            standard_name |-> "given"]

DataVar(level, data) ==
    [coord |-> FALSE, dim |-> FALSE, attrs |-> VarAttrs(level), data |-> data]
DimCoord == [coord |-> TRUE, dim |-> TRUE, attrs |-> EmptyFn, data |-> "spread"]
ScalarCoord == [coord |-> TRUE, dim |-> FALSE, attrs |-> VarAttrs("full"), data |-> "const"]

GenericVars ==
    \* the poor_fair fixture: two data variables over an index dimension
    {("temp" :> DataVar(a, "spread")) @@ ("sal" :> DataVar(b, "spread")) @@ ("obs" :> DimCoord)
        : a \in Levels, b \in Levels}
    \cup {("temp" :> DataVar(a, d)) @@ ("time" :> DimCoord)
        : a \in Levels, d \in {"spread", "text", "empty"}}
    \* latitude stored as a data variable
    \cup {("lat" :> DataVar(a, "const")) @@ ("xyz" :> DataVar(b, "spread")) @@ ("time" :> DimCoord)
        : a \in Levels, b \in Levels}
    \* no data variable at all
    \cup {("time" :> DimCoord)}
    \* coordinates already in place, one QC variable
    \cup {("temp" :> DataVar(a, "spread")) @@ ("temp_qc" :> DataVar(b, "spread"))
          @@ ("time" :> DimCoord) @@ ("lat" :> ScalarCoord) @@ ("lon" :> ScalarCoord)
        : a \in Levels, b \in {"bare", "full"}}

ArgoVars ==
    {("PH_IN_SITU_TOTAL" :> DataVar(a, "spread")) @@ ("PRES" :> DataVar(a, "spread"))
     @@ ("TEMP" :> DataVar(a, d)) @@ ("LATITUDE" :> DataVar(a, g))
     @@ ("LONGITUDE" :> DataVar(a, "const")) @@ ("JULD" :> DataVar(a, "spread"))
        : a \in Levels, d \in {"spread", "text"}, g \in {"const", "nan"}}
    \cup {("PRES" :> DataVar(a, "spread")) @@ ("TEMP" :> DataVar(a, "spread"))
          @@ ("JULD" :> DataVar(a, "nan"))
        : a \in Levels}
    \cup {("PH_IN_SITU_TOTAL" :> DataVar(a, "spread")) @@ ("PRES" :> DataVar(a, "spread"))
          @@ ("TEMP" :> DataVar(a, "spread")) @@ ("BBP700_ADJUSTED" :> DataVar(b, "spread"))
          @@ ("TEMP_QC" :> DataVar("bare", "spread")) @@ ("LATITUDE" :> DataVar(a, "spread"))
          @@ ("LONGITUDE" :> DataVar(a, "spread")) @@ ("JULD" :> DataVar(a, "spread"))
        : a \in Levels, b \in Levels}

RECURSIVE SeqRange(_)
SeqRange(xs) == IF xs = <<>> THEN {} ELSE {Head(xs)} \cup SeqRange(Tail(xs))

RubricAttrs ==
    UNION {SeqRange(t[i].required_attrs) :
              t \in {FINDABLE_METRICS, ACCESSIBLE_METRICS, REUSABLE_METRICS},
              i \in 1..4}

SparseAttrs == ("title" :> S("Test Dataset")) @@ ("institution" :> S("Test Institute"))

\* every attribute the rubric asks for, plus documented quality control
RichAttrs ==
    [k \in RubricAttrs \cup {"quality_control_methodology"} |->
        IF k \in {"Conventions", "Metadata_Conventions"} THEN S("CF-1.6") ELSE S("given")]

Modifiers ==
    {"none", "conv_empty", "conv_acdd", "conv_num", "latlon", "lat_only", "depth",
     "hist_num", "node_num", "refs_num", "refs_plain"}

Modify(attrs, m) ==
    CASE m = "none" -> attrs
      [] m = "conv_empty" -> Put(attrs, "Conventions", S(""))
      [] m = "conv_acdd" -> Put(attrs, "Conventions", S("ACDD-1.3"))
      [] m = "conv_num" -> Put(attrs, "Conventions", Num("1.6"))
      [] m = "latlon" -> Put(Put(attrs, "geospatial_lat_min", Num("44.6")),
                             "geospatial_lon_min", S("-124.1"))
      [] m = "lat_only" -> Put(Put(attrs, "lat", S("44.6")), "lon", S("unknown"))
      [] m = "depth" -> Put(attrs, "nominal_depth", S("25.0"))
      [] m = "hist_num" -> Put(attrs, "history", Num("2024"))
      [] m = "node_num" -> Put(Put(attrs, "node", Num("7")), "sensor", S("CTD"))
      [] m = "refs_num" -> Put(attrs, "references", Num("42182"))
      [] m = "refs_plain" -> Put(attrs, "references", S("https://example.org/refs"))

GlobalAttrs == {Modify(t, m) : t \in {EmptyFn, SparseAttrs, RichAttrs}, m \in Modifiers}

Datasets(k) ==
    [attrs : GlobalAttrs, vars : IF k = "generic" THEN GenericVars ELSE ArgoVars]

InputFiles ==
    [generic |-> {"poor_fair.nc", "ooi_ctd.dat"},
     argo |-> {"BD5904468_001.nc", "profile.nc"}]

\* scikit-learn missing, an artifact missing, everything in place
Envs ==
    {[module |-> TRUE, sklearn |-> TRUE, model |-> TRUE, scaler |-> TRUE],
     [module |-> TRUE, sklearn |-> TRUE, model |-> FALSE, scaler |-> FALSE],
     [module |-> TRUE, sklearn |-> TRUE, model |-> TRUE, scaler |-> FALSE],
     [module |-> TRUE, sklearn |-> FALSE, model |-> FALSE, scaler |-> FALSE],
     [module |-> FALSE, sklearn |-> FALSE, model |-> FALSE, scaler |-> FALSE]}

ReadyEnv == [module |-> TRUE, sklearn |-> TRUE, model |-> TRUE, scaler |-> TRUE]

\* the state of a pipeline object after __init__, over the given inputs
InitOver(kinds, inputs(_), files(_), envs(_)) ==
    /\ kind \in kinds
    /\ input \in inputs(kind)
    /\ input_file \in files(kind)
    /\ env \in envs(kind)
    /\ loaded = FALSE
    /\ dataset = NoDataset
    /\ enrichers = <<>>
    /\ summary = EmptyFn
    /\ pc = "idle"
    /\ todo = <<>>
    /\ last = "none"
    /\ out_exists = FALSE
    /\ out = NoDataset
    /\ now = 1
    /\ calls = <<>>
    /\ hist = <<>>
    /\ checker = NoChecker
    /\ det = NoDetector
    /\ anom = NoAnomalyEnricher
    /\ report = NoReport


(***************************************************************************)
(* A program calling the pipeline's public methods in any order            *)
(***************************************************************************)
Unreadable == [readable |-> FALSE, ds |-> NoDataset]
File(ds) == [readable |-> TRUE, ds |-> ds]

\* a few datasets that between them make enrichers succeed, fail validation and raise
SmallInputs(k) ==
    IF k = "generic"
    THEN {Unreadable,
          File([attrs |-> SparseAttrs,
                vars |-> ("temp" :> DataVar("bare", "spread")) @@ ("sal" :> DataVar("bare", "spread"))
                         @@ ("obs" :> DimCoord)]),
          File([attrs |-> Modify(RichAttrs, "latlon"),
                vars |-> ("temp" :> DataVar("units", "spread")) @@ ("time" :> DimCoord)]),
          File([attrs |-> Modify(SparseAttrs, "conv_num"),
                vars |-> ("temp" :> DataVar("full", "spread")) @@ ("time" :> DimCoord)])}
    ELSE {File([attrs |-> EmptyFn,
                vars |-> ("PH_IN_SITU_TOTAL" :> DataVar("bare", "spread"))
                         @@ ("PRES" :> DataVar("bare", "spread"))
                         @@ ("TEMP" :> DataVar("bare", "spread"))
                         @@ ("BBP700_ADJUSTED" :> DataVar("bare", "spread"))
                         @@ ("JULD" :> DataVar("bare", "spread"))]),
          File([attrs |-> Modify(SparseAttrs, "refs_num"),
                vars |-> ("PRES" :> DataVar("units", "spread"))
                         @@ ("TEMP" :> DataVar("units", "spread"))
                         @@ ("JULD" :> DataVar("units", "nan"))])}

SmallFiles(k) == IF k = "generic" THEN {"poor_fair.nc"} ELSE {"BD5904468_001.nc"}

SmallEnvs(k) ==
    IF k = "generic" THEN {ReadyEnv}
    ELSE {ReadyEnv, [module |-> TRUE, sklearn |-> FALSE, model |-> FALSE, scaler |-> FALSE]}

\* names a caller may put in the list given to run(): the registered ones and one that is not
CallerNames(k) == (DOMAIN enricher_map[k]) \cup {"bogus"}

\* number of names the caller has written in the lists passed so far
NamesPassed == SumSeq([i \in DOMAIN calls |-> IF calls[i].explicit THEN Len(calls[i].names) ELSE 0])

NameLists(k) == UNION {[1..n -> CallerNames(k)] : n \in 0..(MaxNames - NamesPassed)}

Init == InitOver({"generic", "argo"}, SmallInputs, SmallFiles, SmallEnvs)

\* run(enrichers=[...])
RunCall == \E names \in NameLists(kind) : run(names, TRUE)

\* run() with enrichers=None: the default list
RunDefault == run(DefaultEnrichers[kind], FALSE)

Next == LoadDataset \/ RunCall \/ RunDefault \/ RunStep \/ RunReturn \/ Save

Spec == Init /\ [][Next]_vars

(***************************************************************************)
(* quick_enrich / quick_enrich_argo: construct, run(), save()              *)
(***************************************************************************)
WideInputs(k) == {Unreadable} \cup {File(ds) : ds \in Datasets(k)}
WideFiles(k) == InputFiles[k]
WideEnvs(k) == IF k = "generic" THEN {ReadyEnv} ELSE Envs

InitQuick == InitOver({"generic", "argo"}, WideInputs, WideFiles, WideEnvs)

\* pipeline.run() as the first statement after construction
QuickRun == runs = 0 /\ last = "none" /\ RunDefault

\* pipeline.save() in a finally clause: reached however run() ended
save_in_finally == runs = 1 /\ pc = "idle" /\ ~out_exists /\ Save

\* pipeline.save(), reached only when run() has returned
QuickSave == runs = 1 /\ last = "returned" /\ ~out_exists /\ Save

NextQuick == QuickRun \/ RunStep \/ RunReturn \/ QuickSave

SpecQuick == InitQuick /\ [][NextQuick]_vars

(***************************************************************************)
(* An enricher used on its own: enrich(), then a fresh enricher of the     *)
(* same class on the result                                                *)
(***************************************************************************)
InitEnrich ==
    /\ kind \in {"generic", "argo"}
    /\ input \in {File(ds) : ds \in Datasets(kind)}
    /\ input_file \in InputFiles[kind]
    /\ env \in WideEnvs(kind)
    /\ loaded = TRUE
    /\ dataset = input.ds
    /\ enrichers = <<>>
    /\ summary = EmptyFn
    /\ pc = "direct"
    /\ todo = <<>>
    /\ last = "none"
    /\ out_exists = FALSE
    /\ out = NoDataset
    /\ now = 1
    /\ calls = <<>>
    /\ hist = <<>>
    /\ checker = NoChecker
    /\ det = NoDetector
    /\ anom = NoAnomalyEnricher
    /\ report = NoReport

\* cls(dataset).enrich(), the result kept as the current dataset
EnrichWith(cls) ==
    /\ pc = "direct"
    /\ last # "raised"
    /\ runs < MaxApply
    /\ \E e \in {Enrich(cls, dataset, input_file, env, now)} :
           /\ now' = now + 1
           /\ IF e.err
              THEN /\ last' = "raised"
                   /\ calls' = Append(calls, [names |-> <<cls>>, explicit |-> TRUE,
                                              result |-> "raised"])
                   /\ UNCHANGED <<checker, dataset, enrichers>>
              ELSE /\ last' = "returned"
                   /\ calls' = Append(calls, [names |-> <<cls>>, explicit |-> TRUE,
                                              result |-> "returned"])
                   /\ dataset' = e.ds
                   /\ enrichers' = Append(enrichers,
                          [cls |-> cls, changes |-> e.changes, issues |-> e.issues])
    /\ UNCHANGED <<checker, det, anom, report, kind, input_file, input, env, loaded, summary, pc, todo,
                   out_exists, out, hist>>

Apply == enrichers = <<>> /\ \E cls \in EnricherClasses : EnrichWith(cls)

Reapply == enrichers # <<>> /\ EnrichWith(enrichers[Len(enrichers)].cls)

NextEnrich == Apply \/ Reapply

SpecEnrich == InitEnrich /\ [][NextEnrich]_vars


(***************************************************************************)
(* FAIRScore objects: read the grade and ask for recommendations           *)
(***************************************************************************)
\* a report holding a score, nothing read from it yet
Scored(score, by) ==
    [kind |-> "score", by |-> by, score |-> score, asked |-> {},
     grade |-> "", recommendations |-> <<>>]

\* score.grade
Grade ==
    /\ report.kind = "score"
    /\ "grade" \notin report.asked
    /\ report' = [report EXCEPT !.grade = grade(report.score),
                                !.asked = @ \cup {"grade"}]
    /\ UNCHANGED <<checker, det, anom, kind, input_file, input, env, loaded, dataset, enrichers,
                   summary, pc, todo, last, out_exists, out, now, calls, hist>>

\* get_improvement_recommendations(score)
Recommend ==
    /\ report.kind = "score"
    /\ "recommendations" \notin report.asked
    /\ report' = [report EXCEPT
                     !.recommendations = get_improvement_recommendations(report.score),
                     !.asked = @ \cup {"recommendations"}]
    /\ UNCHANGED <<checker, det, anom, kind, input_file, input, env, loaded, dataset, enrichers,
                   summary, pc, todo, last, out_exists, out, now, calls, hist>>

\* scores a caller passes to FAIRScore(...): around every grade boundary and
\* around 80% of every allocation
Hundredths(n) == Q(n, 100)
TotalScores == {Hundredths(n) : n \in {0, 5999, 6000, 6999, 7000, 7999, 8000, 8999, 9000, 9400, 10000}}
FindableScores == {Hundredths(n) : n \in {0, 1999, 2000, 2500}}
AccessibleScores == {Hundredths(n) : n \in {0, 1599, 1600, 2000}}
InteroperableScores == {Hundredths(n) : n \in {0, 2399, 2400, 3000}}
ReusableScores == {Hundredths(n) : n \in {0, 1999, 2000, 2500}}


InitScore ==
    /\ \E f \in FindableScores, a \in AccessibleScores, i \in InteroperableScores,
          r \in ReusableScores, total \in TotalScores :
           report = Scored(FAIRScore(f, a, i, r, total), "caller")
    /\ kind = "generic"
    /\ input = Unreadable
    /\ input_file = "poor_fair.nc"
    /\ env = ReadyEnv
    /\ loaded = FALSE
    /\ dataset = NoDataset
    /\ enrichers = <<>>
    /\ summary = EmptyFn
    /\ pc = "idle"
    /\ todo = <<>>
    /\ last = "none"
    /\ out_exists = FALSE
    /\ out = NoDataset
    /\ now = 1
    /\ calls = <<>>
    /\ hist = <<>>
    /\ checker = NoChecker
    /\ det = NoDetector
    /\ anom = NoAnomalyEnricher

NextScore == Grade \/ Recommend

SpecScore == InitScore /\ [][NextScore]_vars

(***************************************************************************)
(* FAIRAssessor(path).assess() on files of many shapes                     *)
(***************************************************************************)
\* the attributes in names, each holding some text
Given(names) == [k \in names |-> S("given")]

\* every subset of the required attributes of each `most` metric, and the
\* Conventions attribute naming CF, not naming CF, and not being text
AssessAttrs ==
    {Given(names) : names \in SUBSET SeqRange(FINDABLE_METRICS[3].required_attrs)}
    \cup {Given(names) : names \in SUBSET SeqRange(REUSABLE_METRICS[2].required_attrs)}
    \cup {Given(names) : names \in SUBSET SeqRange(REUSABLE_METRICS[4].required_attrs)}
    \cup {Put(Given(names), "Conventions", c) :
            names \in SUBSET {"featureType", "cdm_data_type"},
            c \in {S("CF-1.6"), S("ACDD-1.3"), Num("1.6")}}
    \* documented quality control, alone and with every rubric attribute
    \cup {Given({"quality_control_methodology"}), RichAttrs}

AssessVars ==
    {EmptyFn, ("time" :> DimCoord)}
    \cup {("temp" :> DataVar(a, "spread")) @@ ("obs" :> DimCoord) : a \in Levels}
    \cup {("temp" :> DataVar(a, "spread")) @@ ("time" :> DimCoord) : a \in Levels}
    \cup {("temp" :> DataVar(a, "spread")) @@ ("sal" :> DataVar(b, "spread"))
          @@ ("time" :> DimCoord) @@ ("lat" :> ScalarCoord) : a \in Levels, b \in Levels}
    \cup {("LATITUDE" :> DataVar(a, "const")) @@ ("LONGITUDE" :> DataVar(a, "const"))
          @@ ("PRES" :> DataVar(b, "spread")) : a \in Levels, b \in Levels}
    \* a QC flag beside the measurement, and all four coordinates
    \cup {("temp" :> DataVar(a, "spread")) @@ ("temp_qc" :> DataVar(a, "spread"))
          @@ ("time" :> DimCoord) @@ ("lat" :> ScalarCoord) @@ ("lon" :> ScalarCoord)
          @@ ("depth" :> ScalarCoord) : a \in Levels}

AssessInputs(k) == {Unreadable} \cup {File(ds) : ds \in [attrs : AssessAttrs, vars : AssessVars]}
AssessFiles(k) == InputFiles[k]
AssessEnvs(k) == {ReadyEnv}

InitAssess == InitOver({"generic"}, AssessInputs, AssessFiles, AssessEnvs)

\* FAIRAssessor(path).assess(): load_dataset() turns any failure to open the
\* file into FAIRAssessmentError; a failure while scoring is not caught
Assess ==
    /\ report.kind = "none"
    /\ report' = IF ~input.readable
                 THEN [kind |-> "raised", error |-> "FAIRAssessmentError"]
                 ELSE IF AssessRaises(input.ds)
                 THEN [kind |-> "raised", error |-> "TypeError"]
                 ELSE Scored(assess(input.ds, Chars[input_file]), "assess")
    /\ UNCHANGED <<checker, det, anom, kind, input_file, input, env, loaded, dataset, enrichers,
                   summary, pc, todo, last, out_exists, out, now, calls, hist>>

NextAssess == Assess \/ Grade \/ Recommend

SpecAssess == InitAssess /\ [][NextAssess]_vars

(***************************************************************************)
(* One PHAnomalyDetector object.  det holds its fields (is_trained, model, *)
(* scaler), the kinds of call that have completed on it (done) and how the *)
(* last call on it ended (last).  env.model and env.scaler say whether the *)
(* model file and the `<model stem>_scaler.joblib` file exist.             *)
(***************************************************************************)
Unfitted == [how |-> "none", rows |-> 0, random_state |-> 0]
Fitted(rows, random_state) == [how |-> "fit", rows |-> rows, random_state |-> random_state]
Loaded == [how |-> "joblib", rows |-> 0, random_state |-> 0]

\* arrays: a shape and the values in flattened order, each value "nan",
\* "typical", "high" or "extreme"; labels and scores are arrays of integers
NoArray == [shape |-> <<>>, flat |-> <<>>]

\* the call op on detector d ended with outcome ("returned" or the exception);
\* returned is the array the call gave back, if any
Called(d, op, outcome) ==
    [d EXCEPT !.last = [op |-> op, outcome |-> outcome], !.returned = NoArray]

Returned(d, op, array) == [Called(d, op, "returned") EXCEPT !.returned = array]

\* PHAnomalyDetector(): ImportError without scikit-learn, else an untrained object
PHAnomalyDetector ==
    [built |-> TRUE, is_trained |-> FALSE, model |-> Unfitted, scaler |-> Unfitted,
     done |-> {}, last |-> [op |-> "__init__", outcome |-> "returned"],
     returned |-> NoArray]

\* the scaler is fitted before the rows are counted
train_scaler_first(d, data, random_state) ==
    IF data.rows - data.nan < 10
    THEN Called([d EXCEPT !.scaler = Fitted(data.rows - data.nan, 0)], "train", "ValueError")
    ELSE [Called(d, "train", "returned") EXCEPT
             !.scaler = Fitted(data.rows - data.nan, 0),
             !.model = Fitted(data.rows - data.nan, random_state),
             !.is_trained = TRUE]

\* train(ph, pressure, temperature, random_state): data.rows rows of which
\* data.nan hold a NaN; the rows without NaN are the training set
train(d, data, random_state) ==
    IF data.rows - data.nan < 10
    THEN Called(d, "train", "ValueError")
    ELSE [Called(d, "train", "returned") EXCEPT
             !.scaler = Fitted(data.rows - data.nan, 0),
             !.model = Fitted(data.rows - data.nan, random_state),
             !.is_trained = TRUE]

load_model(d, environment) ==
    IF ~environment.model THEN Called(d, "load_model", "FileNotFoundError")
    ELSE IF ~environment.scaler THEN Called(d, "load_model", "FileNotFoundError")
    ELSE [Called(d, "load_model", "returned") EXCEPT
             !.model = environment.model_file,
             !.scaler = environment.scaler_file,
             !.is_trained = TRUE]

\* np.column_stack of the three flattened arrays: one row per position
prepare_features(ph, pressure, temperature) ==
    [i \in 1..Len(ph.flat) |-> <<ph.flat[i], pressure.flat[i], temperature.flat[i]>>]

\* rows without NaN
get_valid_mask(features) ==
    [i \in DOMAIN features |-> \A j \in 1..3 : features[i][j] # "nan"]

\* scaler.transform then model.predict / model.decision_function on one row.
\* The forest's answer is a function of the fitted model, the fitted scaler
\* and the row; this one tells the models of the exploration apart: a forest
\* fitted on fewer rows, or fitted to another scaler, also flags "high" values.
Outlying(model, scaler, row) ==
    \/ \E j \in 1..3 : row[j] = "extreme"
    \/ /\ \E j \in 1..3 : row[j] = "high"
       /\ (model.rows < 12 \/ scaler.rows # model.rows)

predict(model, scaler, row) == IF Outlying(model, scaler, row) THEN -1 ELSE 1

\* signed score in hundredths: negative for an outlying row
decision_function(model, scaler, row) ==
    IF Outlying(model, scaler, row) THEN -(5 + (model.random_state % 3))
    ELSE 5 + (model.random_state % 3)

\* detect() without the reshape to the shape of ph
detect_flat(d, ph, pressure, temperature) ==
    IF ~d.is_trained THEN Called(d, "detect", "RuntimeError")
    ELSE LET features == prepare_features(ph, pressure, temperature)
             valid_mask == get_valid_mask(features)
         IN  Returned(d, "detect",
                 [shape |-> <<Len(features)>>,
                  flat |-> [i \in DOMAIN features |->
                               IF valid_mask[i] THEN predict(d.model, d.scaler, features[i])
                               ELSE 1]])

detect(d, ph, pressure, temperature) ==
    IF ~d.is_trained THEN Called(d, "detect", "RuntimeError")
    ELSE LET features == prepare_features(ph, pressure, temperature)
             valid_mask == get_valid_mask(features)
         IN  Returned(d, "detect",
                 [shape |-> ph.shape,
                  flat |-> [i \in DOMAIN features |->
                               IF valid_mask[i] THEN predict(d.model, d.scaler, features[i])
                               ELSE 1]])

get_anomaly_scores(d, ph, pressure, temperature) ==
    IF ~d.is_trained THEN Called(d, "get_anomaly_scores", "RuntimeError")
    ELSE LET features == prepare_features(ph, pressure, temperature)
             valid_mask == get_valid_mask(features)
         IN  Returned(d, "get_anomaly_scores",
                 [shape |-> ph.shape,
                  flat |-> [i \in DOMAIN features |->
                               IF valid_mask[i]
                               THEN decision_function(d.model, d.scaler, features[i])
                               ELSE 0]])

\* get_stats() calls detect() first and returns counts, not an array
get_stats(d, ph, pressure, temperature) ==
    Called(d, "get_stats", detect(d, ph, pressure, temperature).last.outcome)

save_model(d) ==
    IF ~d.is_trained THEN Called(d, "save_model", "RuntimeError")
    ELSE Called(d, "save_model", "returned")

\* joblib.dump of the model only
dump_model_only(d, environment) ==
    IF ~d.is_trained THEN environment
    ELSE [environment EXCEPT !.model = TRUE, !.model_file = d.model]

\* the files after save_model(): joblib.dump of the model to the model path
\* and of the scaler to <model stem>_scaler.joblib beside it, the path
\* load_model() computes as well
dump(d, environment) ==
    IF ~d.is_trained THEN environment
    ELSE [environment EXCEPT !.model = TRUE, !.model_file = d.model,
                             !.scaler = TRUE, !.scaler_file = d.scaler]

\* arrays of 12 or 9 rows, some rows holding a NaN
TrainingSets ==
    {[rows |-> 12, nan |-> 0], [rows |-> 12, nan |-> 2], [rows |-> 12, nan |-> 3],
     [rows |-> 9, nan |-> 0], [rows |-> 0, nan |-> 0]}

RandomStates == {42, 7}

\* a call on the detector: its fields and the files change, nothing else;
\* done records a train() or load_model() that returned
DetectorStep(d, environment) ==
    /\ det' = [d EXCEPT !.done =
                  IF d.last.outcome = "returned" /\ d.last.op \in {"train", "load_model"}
                  THEN @ \cup {d.last.op} ELSE @]
    /\ env' = environment
    /\ UNCHANGED <<checker, anom, report, kind, input_file, input, loaded, dataset, enrichers,
                   summary, pc, todo, last, out_exists, out, now, calls, hist>>

\* det = PHAnomalyDetector(): a fresh object, also in place of an earlier one
Construct == env.sklearn /\ DetectorStep(PHAnomalyDetector, env)

Train ==
    /\ det.built
    /\ \E data \in TrainingSets, random_state \in RandomStates :
           DetectorStep(train(det, data, random_state), env)

LoadModel == det.built /\ DetectorStep(load_model(det, env), env)

\* three equally sized arrays: a profile with NaN in different columns, a
\* 2 x 2 grid passed with flat pressure and temperature, a profile that is
\* all NaN, and an empty one
Samples ==
    {[ph |-> [shape |-> <<3>>, flat |-> <<"typical", "nan", "extreme">>],
      pressure |-> [shape |-> <<3>>, flat |-> <<"typical", "typical", "typical">>],
      temperature |-> [shape |-> <<3>>, flat |-> <<"high", "typical", "nan">>]],
     [ph |-> [shape |-> <<2, 2>>, flat |-> <<"typical", "high", "typical", "extreme">>],
      pressure |-> [shape |-> <<4>>, flat |-> <<"typical", "typical", "nan", "typical">>],
      temperature |-> [shape |-> <<4>>, flat |-> <<"typical", "typical", "typical", "typical">>]],
     [ph |-> [shape |-> <<2>>, flat |-> <<"nan", "nan">>],
      pressure |-> [shape |-> <<2>>, flat |-> <<"typical", "nan">>],
      temperature |-> [shape |-> <<2>>, flat |-> <<"nan", "typical">>]],
     [ph |-> [shape |-> <<0>>, flat |-> <<>>],
      pressure |-> [shape |-> <<0>>, flat |-> <<>>],
      temperature |-> [shape |-> <<0>>, flat |-> <<>>]]}

Detect ==
    /\ det.built
    /\ \E x \in Samples : DetectorStep(detect(det, x.ph, x.pressure, x.temperature), env)

GetAnomalyScores ==
    /\ det.built
    /\ \E x \in Samples :
           DetectorStep(get_anomaly_scores(det, x.ph, x.pressure, x.temperature), env)

GetStats ==
    /\ det.built
    /\ \E x \in Samples : DetectorStep(get_stats(det, x.ph, x.pressure, x.temperature), env)

\* joblib.dump of the model, then of the scaler
SaveModel ==
    /\ det.built
    /\ DetectorStep(save_model(det), dump(det, env))

(***************************************************************************)
(* An AnomalyEnricher built by hand on the input dataset, with the         *)
(* detector object above or with none, and either skip policy              *)
(***************************************************************************)
\* what the enricher sees of the detector it was given
GivenDetector(given) ==
    IF ~given THEN "none" ELSE IF det.is_trained THEN "trained" ELSE "untrained"

\* ds[name].values of a variable, by the kind of data it holds
Values(data) ==
    CASE data = "spread" -> [shape |-> <<3>>, flat |-> <<"typical", "high", "extreme">>]
      [] data = "const" -> [shape |-> <<3>>, flat |-> <<"typical", "typical", "typical">>]
      [] data = "nan" -> [shape |-> <<3>>, flat |-> <<"nan", "nan", "nan">>]
      [] OTHER -> [shape |-> <<0>>, flat |-> <<>>]

\* the calls enrich() made on a detector it was given: detect(),
\* get_anomaly_scores() and get_stats() when outputs were added, a detect()
\* that raised on the data when a detection_error was logged
AfterEnrich(d, e) ==
    IF e.changes # <<>>
    THEN LET ph == Values(e.ds.vars[FirstPresent(e.ds, PH_VARS)].data)
             pressure == Values(e.ds.vars[FirstPresent(e.ds, PRES_VARS)].data)
             temperature == Values(e.ds.vars[FirstPresent(e.ds, TEMP_VARS)].data)
         IN  get_stats(get_anomaly_scores(detect(d, ph, pressure, temperature),
                                          ph, pressure, temperature),
                       ph, pressure, temperature)
    ELSE IF e.issues # <<>> /\ e.issues[1].type = "detection_error"
         THEN Called(d, "detect", "TypeError")
    ELSE d

\* AnomalyEnricher(dataset, detector, skip_if_no_model).enrich()
EnrichGiven ==
    /\ ~anom.built
    /\ \E given \in {g \in BOOLEAN : g => det.built}, skip_if_no_model \in BOOLEAN :
         \E e \in {AnomalyEnricher_enrich(input.ds, env, GivenDetector(given),
                                          skip_if_no_model)} :
           /\ anom' = [built |-> TRUE, detector |-> GivenDetector(given),
                       skip_if_no_model |-> skip_if_no_model, e |-> e,
                       validate |-> "not called"]
           /\ det' = IF given THEN AfterEnrich(det, e) ELSE det
    /\ UNCHANGED <<checker, report, kind, input_file, input, env, loaded, dataset, enrichers,
                   summary, pc, todo, last, out_exists, out, now, calls, hist>>

\* validate() on the enricher once enrich() has returned
ValidateGiven ==
    /\ anom.built
    /\ ~anom.e.err
    /\ anom.validate = "not called"
    /\ anom' = [anom EXCEPT !.validate =
                   IF AnomalyEnricher_validate(anom.e) THEN "True" ELSE "False"]
    /\ UNCHANGED <<checker, det, report, kind, input_file, input, env, loaded, dataset, enrichers,
                   summary, pc, todo, last, out_exists, out, now, calls, hist>>

\* a profile with pH, pressure and temperature, one whose temperature is
\* text, and one without pH
DetectorVars ==
    {("PH_IN_SITU_TOTAL" :> DataVar("units", "spread")) @@ ("PRES" :> DataVar("units", "spread"))
     @@ ("TEMP" :> DataVar("units", d)) : d \in {"spread", "text"}}
    \cup {("PRES" :> DataVar("units", "spread")) @@ ("TEMP" :> DataVar("units", "spread"))}

DetectorInputs(k) == {File(ds) : ds \in [attrs : {SparseAttrs}, vars : DetectorVars]}
DetectorFiles(k) == {"BD5904468_001.nc"}
\* the environments, with what the artifact files hold when they exist
DetectorEnvs(k) ==
    {[module |-> e.module, sklearn |-> e.sklearn, model |-> e.model, scaler |-> e.scaler,
      model_file |-> IF e.model THEN Loaded ELSE Unfitted,
      scaler_file |-> IF e.scaler THEN Loaded ELSE Unfitted] :
        e \in Envs \cup {[module |-> TRUE, sklearn |-> TRUE, model |-> FALSE, scaler |-> TRUE]}}

InitDetector == InitOver({"argo"}, DetectorInputs, DetectorFiles, DetectorEnvs)

NextDetector ==
    \/ Construct
    \/ Train
    \/ LoadModel
    \/ Detect
    \/ GetAnomalyScores
    \/ GetStats
    \/ SaveModel
    \/ EnrichGiven
    \/ ValidateGiven

SpecDetector == InitDetector /\ [][NextDetector]_vars

(***************************************************************************)
(* ArgoMetadataEnricher(dataset, file_path).enrich() over file names with  *)
(* and without a WMO number                                                *)
(***************************************************************************)
WmoFiles ==
    {"BD5904468_001.nc", "R5904471_001.nc", "5904659_Rtraj.nc", "D12345678.nc",
     "float_590446_8.nc", "profile.nc"}

InitWmo ==
    /\ kind = "argo"
    /\ input \in {File(ds) : ds \in [attrs : GlobalAttrs, vars : DetectorVars]}
    /\ input_file \in WmoFiles
    /\ env = ReadyEnv
    /\ loaded = TRUE
    /\ dataset = input.ds
    /\ enrichers = <<>>
    /\ summary = EmptyFn
    /\ pc = "direct"
    /\ todo = <<>>
    /\ last = "none"
    /\ out_exists = FALSE
    /\ out = NoDataset
    /\ now = 1
    /\ calls = <<>>
    /\ hist = <<>>
    /\ checker = NoChecker
    /\ det = NoDetector
    /\ anom = NoAnomalyEnricher
    /\ report = NoReport

EnrichArgo == EnrichWith("ArgoMetadataEnricher")

SpecWmo == InitWmo /\ [][EnrichArgo]_vars

(***************************************************************************)
(* VariableEnricher(dataset).enrich() over datasets that hold timestamp    *)
(* variables beside measured ones and QC flags                             *)
(***************************************************************************)
\* a variable decoded by xarray as datetime64: its units are in the
\* encoding, not in attrs
Decoded(data) ==
    [coord |-> FALSE, dim |-> FALSE, attrs |-> [long_name |-> "given"], data |-> data]

TimestampVars ==
    {("temp" :> DataVar(a, "spread")) @@ ("driver_timestamp" :> v)
     @@ ("temp_qc" :> DataVar(c, "spread")) @@ ("time" :> DimCoord)
        : a \in Levels, v \in {DataVar(b, "spread") : b \in Levels} \cup {Decoded("spread")},
          c \in {"bare", "full"}}
    \cup {("sal" :> DataVar(a, d)) @@ ("ingestion_time" :> DataVar(b, "spread"))
          @@ ("time" :> DimCoord)
        : a \in Levels, b \in Levels, d \in {"spread", "text", "empty"}}

InitVariable ==
    /\ kind = "generic"
    /\ input \in {File(ds) : ds \in [attrs : {EmptyFn, SparseAttrs, RichAttrs},
                                      vars : TimestampVars \cup GenericVars]}
    /\ input_file = "ooi_ctd.dat"
    /\ env = ReadyEnv
    /\ loaded = TRUE
    /\ dataset = input.ds
    /\ enrichers = <<>>
    /\ summary = EmptyFn
    /\ pc = "direct"
    /\ todo = <<>>
    /\ last = "none"
    /\ out_exists = FALSE
    /\ out = NoDataset
    /\ now = 1
    /\ calls = <<>>
    /\ hist = <<>>
    /\ checker = NoChecker
    /\ det = NoDetector
    /\ anom = NoAnomalyEnricher
    /\ report = NoReport

EnrichVariable == EnrichWith("VariableEnricher")

SpecVariable == InitVariable /\ [][EnrichVariable]_vars

(***************************************************************************)
(* CFComplianceChecker: the stored results and the lists drawn from them   *)
(***************************************************************************)
MaxChecks == 3
MaxItems == 3

\* CFComplianceChecker(dataset_path): no results yet
CFComplianceChecker ==
    [built |-> TRUE, results |-> [run |-> FALSE, all_priorities |-> <<>>],
     last |-> "__init__", max_items |-> 0, returned |-> <<>>]

\* the entries of results['all_priorities']: priority as check.get('priority',
\* '').lower() reads it, value as (scored, possible), and the messages
CheckEntries ==
    {[name |-> "units", priority |-> "high", value |-> <<0, 1>>,
      msgs |-> <<"units missing", "units not udunits">>],
     [name |-> "conventions", priority |-> "high", value |-> <<1, 1>>, msgs |-> <<>>],
     [name |-> "standard_name", priority |-> "medium", value |-> <<1, 3>>, msgs |-> <<>>],
     [name |-> "axis", priority |-> "medium", value |-> <<2, 2>>, msgs |-> <<>>],
     [name |-> "comment", priority |-> "low", value |-> <<0, 2>>,
      msgs |-> <<"comment is empty">>],
     [name |-> "Unknown", priority |-> "", value |-> <<0, 1>>, msgs |-> <<>>]}

\* what a compliance check may store
StoredResults ==
    {[run |-> TRUE, all_priorities |-> checks] :
        checks \in UNION {[1..n -> CheckEntries] : n \in 0..MaxChecks}}

IsViolation(check) == check.value[1] < check.value[2]

get_violations(results, priority) ==
    IF ~results.run THEN <<>>
    ELSE IF priority = "all"
    THEN SelectSeq(results.all_priorities, IsViolation)
    ELSE LET Wanted(check) == check.priority = priority /\ IsViolation(check)
         IN  SelectSeq(results.all_priorities, Wanted)

\* the (priority, check_name, message) tuple of one violation
Recommendation(priority, violation) ==
    <<priority, violation.name,
      IF violation.msgs # <<>> THEN violation.msgs[1]
      ELSE "See CF conventions documentation">>

\* the loop body over the violations still to visit: append, then return as
\* soon as the list holds max_items entries
RECURSIVE AppendUntil(_, _, _)
AppendUntil(recommendations, rest, max_items) ==
    IF rest = <<>> THEN recommendations
    ELSE LET appended == Append(recommendations, Head(rest))
         IN  IF Len(appended) >= max_items THEN appended
             ELSE AppendUntil(appended, Tail(rest), max_items)

Recommendations(results, priority) ==
    LET violations == get_violations(results, priority)
    IN  [i \in DOMAIN violations |-> Recommendation(priority, violations[i])]

get_recommendations(results, max_items) ==
    IF ~results.run THEN <<>>
    ELSE AppendUntil(<<>>,
                     Recommendations(results, "high") \o Recommendations(results, "medium")
                         \o Recommendations(results, "low"),
                     max_items)

\* run_compliance_check() stores the results of the cf checker, or raises
\* ComplianceCheckError and stores nothing
RunComplianceCheck ==
    /\ checker.built
    /\ \/ \E results \in StoredResults :
              checker' = [checker EXCEPT !.results = results,
                                         !.last = "run_compliance_check",
                                         !.returned = <<>>]
       \/ checker' = [checker EXCEPT !.last = "ComplianceCheckError", !.returned = <<>>]
    /\ UNCHANGED <<kind, input_file, input, env, loaded, dataset, enrichers, summary,
                   pc, todo, last, out_exists, out, now, calls, hist, det, anom, report>>

GetViolations ==
    /\ checker.built
    /\ \E priority \in {"all", "high", "medium", "low"} :
           checker' = [checker EXCEPT !.last = "get_violations",
                                      !.returned = get_violations(checker.results, priority)]
    /\ UNCHANGED <<kind, input_file, input, env, loaded, dataset, enrichers, summary,
                   pc, todo, last, out_exists, out, now, calls, hist, det, anom, report>>

GetRecommendations ==
    /\ checker.built
    /\ \E max_items \in 0..MaxItems :
           checker' = [checker EXCEPT !.last = "get_recommendations",
                                      !.max_items = max_items,
                                      !.returned = get_recommendations(checker.results,
                                                                       max_items)]
    /\ UNCHANGED <<kind, input_file, input, env, loaded, dataset, enrichers, summary,
                   pc, todo, last, out_exists, out, now, calls, hist, det, anom, report>>

InitCf ==
    /\ checker = CFComplianceChecker
    /\ kind = "generic"
    /\ input = Unreadable
    /\ input_file = "poor_fair.nc"
    /\ env = ReadyEnv
    /\ loaded = FALSE
    /\ dataset = NoDataset
    /\ enrichers = <<>>
    /\ summary = EmptyFn
    /\ pc = "idle"
    /\ todo = <<>>
    /\ last = "none"
    /\ out_exists = FALSE
    /\ out = NoDataset
    /\ now = 1
    /\ calls = <<>>
    /\ hist = <<>>
    /\ det = NoDetector
    /\ anom = NoAnomalyEnricher
    /\ report = NoReport

NextCf ==
    \/ RunComplianceCheck
    \/ GetViolations
    \/ GetRecommendations

SpecCf == InitCf /\ [][NextCf]_vars

(***************************************************************************)
(* Properties                                                              *)
(***************************************************************************)

\* C1: idempotence of enrich().  For every enricher class other than
\* MetadataEnricher and every dataset D, a fresh enricher of the same class
\* built on the dataset returned by enrich(D) appends no entry to
\* changes_made when enrich() is called again.  (Under SpecEnrich every
\* application after the first is a re-application of the same class.)
C1_Idempotent ==
    \A i \in 2..Len(enrichers) :
        (enrichers[i].cls = enrichers[i - 1].cls /\ enrichers[i].cls # "MetadataEnricher")
            => enrichers[i].changes = <<>>

\* the default run() of quick_enrich / quick_enrich_argo has returned
QuickDone == calls # <<>> /\ calls[1].result = "returned" /\ pc = "idle"

\* the classes of the default list, in order
DefaultClasses(k) ==
    [i \in DOMAIN DefaultEnrichers[k] |-> enricher_map[k][DefaultEnrichers[k][i]]]

\* C2: pipeline abort semantics.  When an enricher raises during run(), run()
\* ends by raising, no later enricher of the list is executed, and the
\* run-then-save caller never reaches save(): no file exists at the output
\* path.  An output file exists only after a run that completed every enricher
\* of the list.
C2_AbortLeavesNoOutput ==
    /\ \A i \in DOMAIN hist :
           hist[i].outcome = "raised" =>
               /\ i = Len(hist)
               /\ pc = "idle"
               /\ last = "raised"
               /\ calls[hist[i].run].result = "raised"
               /\ ~out_exists
    /\ (calls # <<>> /\ calls[1].result = "raised") => ~out_exists
    /\ out_exists =>
           /\ QuickDone
           /\ [i \in DOMAIN enrichers |-> enrichers[i].cls] = DefaultClasses(kind)
           /\ out = dataset

\* an enricher raised in the middle of the list, after others had completed
C2_Witness ==
    /\ hist # <<>>
    /\ hist[Len(hist)].outcome = "raised"
    /\ Len(hist) > 1
    /\ Len(hist) < Len(DefaultEnrichers[kind])
    /\ pc = "idle"

\* FAIRAssessor on the input file and on the file the pipeline writes
ScoreBefore == assess(input.ds, Chars[input_file])
ScoreAfter == assess(dataset, DefaultOutputPath(input_file))

AllMetrics(score) ==
    score.findable_details \o score.accessible_details
        \o score.interoperable_details \o score.reusable_details

\* C3: score monotonicity of the generic pipeline.  After the default generic
\* run the total_score is at least the total_score of the input dataset, and
\* no rubric metric has fewer points_earned than before.
C3_GenericScoreMonotone ==
    (kind = "generic" /\ QuickDone /\ ~AssessRaises(input.ds)) =>
        /\ QLeq(ScoreBefore.total_score, ScoreAfter.total_score)
        /\ \A i \in DOMAIN AllMetrics(ScoreBefore) :
               QLeq(AllMetrics(ScoreBefore)[i].points_earned,
                    AllMetrics(ScoreAfter)[i].points_earned)

\* C4: score monotonicity of the Argo pipeline.  After the default Argo run the
\* total_score is at least the total_score of the input dataset, whether or
\* not AnomalyEnricher added PH_ANOMALY_FLAG and PH_ANOMALY_SCORE.
C4_ArgoScoreMonotone ==
    (kind = "argo" /\ QuickDone /\ ~AssessRaises(input.ds)) =>
        QLeq(ScoreBefore.total_score, ScoreAfter.total_score)

\* the input's global attributes are exactly title and institution
SparseInput == input.readable /\ DOMAIN input.ds.attrs = {"title", "institution"}

\* C5: end-to-end gain on a sparse dataset.  For an input whose global
\* attributes are exactly {title, institution}, the default generic run gives
\* a strictly greater interoperable_score and a strictly greater
\* reusable_score than the input had.
C5_SparseGain ==
    (kind = "generic" /\ QuickDone /\ SparseInput) =>
        /\ QLt(ScoreBefore.interoperable_score, ScoreAfter.interoperable_score)
        /\ QLt(ScoreBefore.reusable_score, ScoreAfter.reusable_score)

\* the poor_fair fixture after the default generic run
C5_Witness ==
    /\ kind = "generic"
    /\ QuickDone
    /\ SparseInput
    /\ DOMAIN input.ds.vars = {"temp", "sal", "obs"}
    /\ Len(enrichers) = 3

\* the entries of hist that ran an enricher to completion
IsCompleted(h) == h.outcome \in {"ok", "invalid"}

\* the registered names of a list, in list order
Registered(k, names) == SelectSeq(names, LAMBDA n : n \in DOMAIN enricher_map[k])

\* position of a registered name in the fixed order
Pos(k, name) == CHOOSE i \in DOMAIN DefaultEnrichers[k] : DefaultEnrichers[k][i] = name

C6_Iteration ==
    (pc = "running" /\ todo # <<>>) =>
        LET names == calls[runs].names
            name == names[Len(names) - Len(todo) + 1]
        IN  /\ hist' = Append(hist, hist'[Len(hist')])
            /\ hist'[Len(hist')].run = runs
            /\ hist'[Len(hist')].name = name
            /\ ~calls[runs].explicit => names = DefaultEnrichers[kind]
            /\ name \in DOMAIN enricher_map[kind] =>
                   LET e == Enrich(enricher_map[kind][name], dataset, input_file, env, now)
                   IN  IF e.err
                       THEN dataset' = dataset /\ enrichers' = enrichers
                       ELSE /\ dataset' = e.ds
                            /\ Len(enrichers') = Len(enrichers) + 1
                            /\ enrichers'[Len(enrichers')].cls = enricher_map[kind][name]

C7_Iteration ==
    /\ (pc = "running" /\ todo # <<>> /\ Head(todo) \in DOMAIN enricher_map[kind]) =>
           LET cls == enricher_map[kind][Head(todo)]
               e == Enrich(cls, dataset, input_file, env, now)
               en == [cls |-> cls, changes |-> e.changes, issues |-> e.issues]
           IN  (~e.err /\ ~Validate(cls, e)) =>
                   /\ pc' = "running"
                   /\ last' # "raised"
                   /\ calls'[runs].result = "running"
                   /\ dataset' = e.ds
                   /\ enrichers' = Append(enrichers, en)
                   /\ Has(summary', cls) /\ summary'[cls] = get_summary(en)
                   /\ todo' = Tail(todo)
    /\ (pc = "idle" /\ loaded /\ <<out_exists, out>>' # <<out_exists, out>>) =>
           (out_exists' /\ out' = dataset)

\* C7: validation failures are non-fatal.  When validate() returns False for an
\* enricher during run(), nothing is raised, the dataset returned by its
\* enrich() becomes the pipeline dataset, its summary is recorded and it is
\* counted among the enrichers run, the rest of the list stays to be run, and
\* a later save() writes the pipeline dataset.
C7_ValidationNonFatal == [][C7_Iteration]_vars

\* an enricher failed validation, a later one of the same run completed, the
\* run returned, and the result was saved
C7_Witness ==
    /\ \E i, j \in DOMAIN hist :
           /\ i < j
           /\ hist[i].run = hist[j].run
           /\ hist[i].outcome = "invalid"
           /\ IsCompleted(hist[j])
           /\ calls[hist[i].run].result = "returned"
    /\ out_exists
    /\ out = dataset

\* number of enrichers completed by the run() calls before call r
CompletedBefore(r) == Len(SelectSeq(hist, LAMBDA h : h.run < r /\ IsCompleted(h)))

\* the names whose enricher call r ran to completion, in execution order
CompletedNames(r) ==
    LET done == SelectSeq(hist, LAMBDA h : h.run = r /\ IsCompleted(h))
    IN  [i \in DOMAIN done |-> done[i].name]

C8_Iteration ==
    /\ (pc = "running" /\ todo # <<>> /\ Head(todo) \notin DOMAIN enricher_map[kind]) =>
           /\ UNCHANGED <<dataset, enrichers, summary, loaded, out_exists, out>>
           /\ pc' = "running"
           /\ last' = last
           /\ todo' = Tail(todo)
    /\ (pc = "running" /\ pc' = "idle" /\ last' = "returned") =>
           /\ CompletedNames(runs) = Registered(kind, calls[runs].names)
           /\ get_enrichment_summary.enrichers_run
                  = CompletedBefore(runs) + Len(Registered(kind, calls[runs].names))

\* C8: unknown enricher names are skipped.  A name absent from the registry
\* raises nothing, runs no enricher and leaves the dataset and the summaries
\* untouched; every registered name of the list is still run, in list order;
\* when run() returns, enrichers_run has grown by the number of registered
\* names in the list, so on a fresh pipeline it equals that number.
C8_UnknownSkipped == [][C8_Iteration]_vars

\* a returned run whose list held an unknown name before a registered one
C8_Witness ==
    /\ calls # <<>>
    /\ calls[1].result = "returned"
    /\ Len(calls[1].names) = 2
    /\ calls[1].names[1] = "bogus"
    /\ calls[1].names[2] \in DOMAIN enricher_map[kind]
    /\ Len(enrichers) = 1
    /\ pc = "idle"

\* C9: summary aggregation.  total_changes is the sum of the lengths of the
\* changes_made ledgers of the enrichers that completed, enrichers_run is their
\* number, each completed enricher's get_summary() is found unchanged under
\* enrichers, and an enricher that raised contributes to none of the three.
C9_SummaryAggregation ==
    LET s == get_enrichment_summary
    IN  /\ s.total_changes = SumSeq([i \in DOMAIN enrichers |-> Len(enrichers[i].changes)])
        /\ s.enrichers_run = Len(SelectSeq(hist, IsCompleted))
        /\ \A i \in DOMAIN enrichers :
               /\ Has(s.enrichers, enrichers[i].cls)
               /\ s.enrichers[enrichers[i].cls] = get_summary(enrichers[i])

ScoreWithinRubric(score) ==
    /\ score.total_score = QAdd(QAdd(QAdd(score.findable_score, score.accessible_score),
                                     score.interoperable_score), score.reusable_score)
    /\ QLeq(QInt(0), score.findable_score) /\ QLeq(score.findable_score, QInt(25))
    /\ QLeq(QInt(0), score.accessible_score) /\ QLeq(score.accessible_score, QInt(20))
    /\ QLeq(QInt(0), score.interoperable_score) /\ QLeq(score.interoperable_score, QInt(30))
    /\ QLeq(QInt(0), score.reusable_score) /\ QLeq(score.reusable_score, QInt(25))
    /\ QLeq(QInt(0), score.total_score) /\ QLeq(score.total_score, QInt(100))

\* C10: rubric sum invariant.  Every score assess() produces, on the input and
\* on the pipeline's dataset at any stage, has total_score equal to the sum of
\* the four sub-scores, each sub-score between 0 and its allocation (25, 20,
\* 30, 25) and total_score between 0 and 100; the possible points of the four
\* rubric tables sum to 25, 20, 30 and 25.
C10_RubricSum ==
    /\ PossiblePoints(FINDABLE_METRICS) = 25
    /\ PossiblePoints(ACCESSIBLE_METRICS) = 20
    /\ PossiblePoints(INTEROPERABLE_METRICS) = 30
    /\ PossiblePoints(REUSABLE_METRICS) = 25
    /\ (input.readable /\ calls = <<>> /\ ~AssessRaises(input.ds)) => ScoreWithinRubric(ScoreBefore)
    /\ (loaded /\ ~AssessRaises(dataset)) => ScoreWithinRubric(ScoreAfter)

\* a finished run whose result earns every findable point and not every point
C10_Witness ==
    /\ QuickDone
    /\ ScoreAfter.findable_score = QInt(25)
    /\ QLt(QInt(0), ScoreAfter.interoperable_score)
    /\ QLt(ScoreAfter.total_score, QInt(100))
    /\ QLt(ScoreBefore.total_score, ScoreAfter.total_score)

\* C11: grade boundaries.  The grade read from a FAIRScore depends on
\* total_score alone: A when total_score >= 90, B when 80 <= total_score < 90,
\* C when 70 <= total_score < 80, D when 60 <= total_score < 70, F below 60;
\* so 90.0 gives A, 89.99 B, 80.0 B, 79.99 C, 70.0 C, 60.0 D and 59.99 F.
C11_GradeBoundaries ==
    (report.kind = "score" /\ "grade" \in report.asked) =>
        LET t == report.score.total_score
            g == report.grade
        IN  /\ g \in {"A", "B", "C", "D", "F"}
            /\ g = "A" <=> QLeq(QInt(90), t)
            /\ g = "B" <=> (QLeq(QInt(80), t) /\ QLt(t, QInt(90)))
            /\ g = "C" <=> (QLeq(QInt(70), t) /\ QLt(t, QInt(80)))
            /\ g = "D" <=> (QLeq(QInt(60), t) /\ QLt(t, QInt(70)))
            /\ g = "F" <=> QLt(t, QInt(60))
            /\ t = Hundredths(9000) => g = "A"
            /\ t = Hundredths(8999) => g = "B"
            /\ t = Hundredths(8000) => g = "B"
            /\ t = Hundredths(7999) => g = "C"
            /\ t = Hundredths(7000) => g = "C"
            /\ t = Hundredths(6000) => g = "D"
            /\ t = Hundredths(5999) => g = "F"

\* a score of 89.99 whose sub-scores are all zero was graded B
C11_Witness ==
    /\ report.kind = "score"
    /\ "grade" \in report.asked
    /\ report.score.total_score = Hundredths(8999)
    /\ report.score.findable_score = QInt(0)
    /\ report.score.reusable_score = QInt(0)
    /\ report.grade = "B"

\* the principles in the order recommendations are made, each with its
\* priority and whether the score falls short of 80% of the allocation
RecommendationOrder == <<"Findability", "Accessibility", "Interoperability", "Reusability">>

FallsShort(score, category) ==
    CASE category = "Findability" -> QLt(score.findable_score, Q(80 * 25, 100))
      [] category = "Accessibility" -> QLt(score.accessible_score, Q(80 * 20, 100))
      [] category = "Interoperability" -> QLt(score.interoperable_score, Q(80 * 30, 100))
      [] category = "Reusability" -> QLt(score.reusable_score, Q(80 * 25, 100))

\* C17: recommendation engine.  get_improvement_recommendations returns
\* exactly one tuple for each principle whose score is strictly below 80% of
\* its allocation and none for a principle at or above it, in the order
\* Findability, Accessibility, Interoperability, Reusability, with priority
\* critical for Findability and Interoperability and high for Accessibility
\* and Reusability; a perfect score gives an empty list and a score of 0 in
\* every principle gives four tuples.
C17_Recommendations ==
    (report.kind = "score" /\ "recommendations" \in report.asked) =>
        LET recs == report.recommendations
            s == report.score
        IN  /\ [i \in DOMAIN recs |-> recs[i].category]
                   = SelectSeq(RecommendationOrder, LAMBDA c : FallsShort(s, c))
            /\ \A i \in DOMAIN recs :
                   recs[i].priority =
                       IF recs[i].category \in {"Findability", "Interoperability"}
                       THEN "critical" ELSE "high"
            /\ (s.findable_score = QInt(25) /\ s.accessible_score = QInt(20)
                /\ s.interoperable_score = QInt(30) /\ s.reusable_score = QInt(25))
                   => recs = <<>>
            /\ (s.findable_score = QInt(0) /\ s.accessible_score = QInt(0)
                /\ s.interoperable_score = QInt(0) /\ s.reusable_score = QInt(0))
                   => Len(recs) = 4

\* two principles exactly at 80% and two just below: two tuples, high first
C17_Witness ==
    /\ report.kind = "score"
    /\ "recommendations" \in report.asked
    /\ report.score.findable_score = QInt(20)
    /\ report.score.accessible_score = Hundredths(1599)
    /\ report.score.interoperable_score = Hundredths(2399)
    /\ report.score.reusable_score = QInt(20)
    /\ Len(report.recommendations) = 2
    /\ report.recommendations[1].priority = "high"
    /\ report.recommendations[2].priority = "critical"

\* an assess() call returned a score
Assessed == report.kind = "score" /\ report.by = "assess"

\* the global attributes of the assessed file that a metric requires
Present(m) == {i \in DOMAIN m.required_attrs : Has(input.ds.attrs, m.required_attrs[i])}

\* what C12 expects of the MetricScore ms given for the `most` metric m
MostAsClaimed(m, ms) ==
    LET n == Len(m.required_attrs)
        k == Cardinality(Present(m))
    IN  /\ ms.name = m.name
        /\ ms.points_possible = m.points
        /\ IF 100 * k >= 67 * n
           THEN ms.status = "pass" /\ ms.points_earned = QInt(m.points)
           ELSE /\ ms.points_earned = QMul(Q(k, n), QInt(m.points))
                /\ ms.status = IF k > 0 THEN "partial" ELSE "fail"
        /\ (n = 3 /\ k = 2) => ms.status = "partial"

Carrying(a) == {v \in DataVars(input.ds) : Has(input.ds.vars[v].attrs, a)}

\* share of the data variables carrying a, out of 4 points; nothing without variables
ShareOfFour(a) ==
    IF DataVars(input.ds) = {} THEN QInt(0)
    ELSE QMul(QInt(4), Q(Cardinality(Carrying(a)), Cardinality(DataVars(input.ds))))

\* names among all variables of the file that match a coordinate keyword
CoordinateMatches ==
    {v \in DOMAIN input.ds.vars :
        \E c \in {"time", "lat", "latitude", "lon", "longitude", "depth", "altitude"} :
            Contains(Lower(Chars[v]), Chars[c])}

CfPointsAsClaimed ==
    QAdd(QAdd(QAdd(
        IF Has(input.ds.attrs, "Conventions") /\ TextContains(input.ds.attrs["Conventions"], "CF")
        THEN QInt(3) ELSE QInt(0),
        ShareOfFour("units")),
        IF Cardinality(CoordinateMatches) >= 2 THEN QInt(4)
        ELSE IF Cardinality(CoordinateMatches) = 1 THEN QInt(2) ELSE QInt(0)),
        ShareOfFour("standard_name"))

\* C13: CF-compliance sub-scoring.  For every dataset assess() scores,
\* cf_compliance points_earned = (3 if Conventions is present and contains
\* 'CF', else 0) + 4 * (variables with units / variables) + (4 if at least 2
\* distinct variable names match a coordinate keyword case-insensitively, 2 if
\* exactly 1, 0 if none) + 4 * (variables with standard_name / variables),
\* never more than 15; status is pass when earned >= 13.5, partial when
\* earned >= 7.5, else fail.  Conventions 'CF-1.6', all variables with units,
\* exactly one coordinate-name match and no standard_name give 9 of 15, partial.
C13_CfCompliance ==
    Assessed =>
        LET cf == report.score.interoperable_details[1]
        IN  /\ cf.name = "cf_compliance"
            /\ cf.points_possible = 15
            /\ cf.points_earned = CfPointsAsClaimed
            /\ QLeq(cf.points_earned, QInt(15))
            /\ cf.status = IF QLeq(Q(135, 10), cf.points_earned) THEN "pass"
                           ELSE IF QLeq(Q(75, 10), cf.points_earned) THEN "partial"
                           ELSE "fail"
            /\ (/\ Has(input.ds.attrs, "Conventions")
                /\ input.ds.attrs["Conventions"] = S("CF-1.6")
                /\ DataVars(input.ds) # {}
                /\ Carrying("units") = DataVars(input.ds)
                /\ Cardinality(CoordinateMatches) = 1
                /\ Carrying("standard_name") = {})
                   => (cf.points_earned = QInt(9) /\ cf.status = "partial")

\* the worked example: temp with units over a time dimension, Conventions CF-1.6
C13_Witness ==
    /\ Assessed
    /\ DOMAIN input.ds.vars = {"temp", "time"}
    /\ Has(input.ds.attrs, "Conventions")
    /\ input.ds.attrs["Conventions"] = S("CF-1.6")
    /\ Carrying("units") = {"temp"}
    /\ Carrying("standard_name") = {}
    /\ report.score.interoperable_details[1].points_earned = QInt(9)
    /\ report.score.interoperable_details[1].status = "partial"

\* C16: assessment failure modes.  assess() on a path that cannot be opened as
\* a dataset raises FAIRAssessmentError and returns no FAIRScore.  assess() on
\* a readable dataset with zero data variables raises nothing and returns a
\* complete FAIRScore with four MetricScores per principle, in which
\* standard_vocabulary has points_earned 0, status fail and details
\* 'No variables found'.
C16_AssessmentFailureModes ==
    report.kind # "none" =>
        /\ ~input.readable =>
               (report.kind = "raised" /\ report.error = "FAIRAssessmentError")
        /\ (input.readable /\ DataVars(input.ds) = {}) =>
               /\ report.kind = "score"
               /\ Len(report.score.findable_details) = 4
               /\ Len(report.score.accessible_details) = 4
               /\ Len(report.score.interoperable_details) = 4
               /\ Len(report.score.reusable_details) = 4
               /\ report.score.interoperable_details[2].name = "standard_vocabulary"
               /\ report.score.interoperable_details[2].points_earned = QInt(0)
               /\ report.score.interoperable_details[2].status = "fail"
               /\ report.score.interoperable_details[2].details = "No variables found"

\* the issue types of the degraded situations a dataset and an environment are in
DegradedSituations(ds, environment) ==
    (IF ~environment.sklearn THEN {"missing_dependency"} ELSE {})
    \cup (IF ~(environment.model /\ environment.scaler) THEN {"no_model"} ELSE {})
    \cup (IF \E c \in {PH_VARS, PRES_VARS, TEMP_VARS} : FirstPresent(ds, c) = "none"
          THEN {"missing_variables"} ELSE {})

\* AnomalyEnricher(input).enrich() was the one call made so far
AnomalyApplied == Len(calls) = 1 /\ calls[1].names = <<"AnomalyEnricher">>

\* C14: AnomalyEnricher degrades gracefully.  When the machine-learning
\* dependency is not installed, the model file is absent under the default
\* skip policy, or a required pH, pressure or temperature variable is missing,
\* enrich() raises nothing, returns a dataset with the variables and
\* attributes of its input, logs no change and logs an issue of the type of
\* the situation (missing_dependency, no_model, missing_variables), and
\* validate() then returns True.
C14_GracefulDegradation ==
    (AnomalyApplied /\ DegradedSituations(input.ds, env) # {}) =>
        /\ calls[1].result = "returned"
        /\ Len(enrichers) = 1
        /\ dataset = input.ds
        /\ enrichers[1].changes = <<>>
        /\ enrichers[1].issues # <<>>
        /\ \A i \in DOMAIN enrichers[1].issues :
               enrichers[1].issues[i].type \in DegradedSituations(input.ds, env)
        /\ AnomalyEnricher_validate([NewEnricher(dataset) EXCEPT
               !.issues = enrichers[1].issues])

\* the calls that need a trained detector
NeedsTraining == {"detect", "get_anomaly_scores", "get_stats", "save_model"}

\* the call that took detector d to d2 raised and left the trained status
\* and the held model and scaler as they were
RaisedAndKept(d, d2) ==
    /\ d2.last.outcome # "returned"
    /\ d2.is_trained = d.is_trained
    /\ d2.model = d.model
    /\ d2.scaler = d.scaler

\* C15: detector trained-state lifecycle.  On one PHAnomalyDetector, detect(),
\* get_anomaly_scores(), get_stats() and save_model() raise the not-trained
\* error exactly when no train() or load_model() call has completed
\* successfully on it before.  A train() call with fewer than 10 NaN-free
\* rows, and a load_model() call with a missing model or scaler file, raise
\* and leave the trained status and the held model and scaler as they were.
C15_TrainedLifecycle ==
    det.built =>
        /\ det.last.op \in NeedsTraining =>
               (det.last.outcome = "RuntimeError" <=> det.done = {})
        /\ \A data \in TrainingSets, random_state \in RandomStates :
               data.rows - data.nan < 10 =>
                   RaisedAndKept(det, train(det, data, random_state))
        /\ ~(env.model /\ env.scaler) => RaisedAndKept(det, load_model(det, env))
        /\ (det.last.op \in {"train", "load_model"} /\ det.last.outcome # "returned") =>
               (det.is_trained <=> det.done # {})

\* a train() on too few rows has raised on a detector that had loaded its
\* model, and the loaded model and scaler are still held
C15_Witness ==
    /\ det.built
    /\ det.last = [op |-> "train", outcome |-> "ValueError"]
    /\ det.done = {"load_model"}
    /\ det.is_trained
    /\ det.model = Loaded
    /\ det.scaler = Loaded

\* enrich() of the hand-built AnomalyEnricher found its input variables and
\* then a detector that is not trained, or no model or scaler file to load
DetectorNotReady ==
    /\ anom.built
    /\ DegradedSituations(input.ds, env) \subseteq {"no_model"}
    /\ \/ anom.detector = "untrained"
       \/ anom.detector = "none" /\ ~(env.model /\ env.scaler)

\* C20: anomaly skip policy.  When the detector is not trained or its model or
\* scaler file is missing, enrich() with skip_if_no_model=True returns the
\* dataset without anomaly variables and with a logged issue, and with
\* skip_if_no_model=False lets the failure propagate to the caller.  In no
\* case does enrich() return a dataset without PH_ANOMALY_FLAG while its
\* issues ledger is empty, so validate() never fails on a skipped run.
C20_SkipPolicy ==
    /\ (DetectorNotReady /\ anom.skip_if_no_model) =>
           /\ ~anom.e.err
           /\ ~Has(anom.e.ds.vars, "PH_ANOMALY_FLAG")
           /\ ~Has(anom.e.ds.vars, "PH_ANOMALY_SCORE")
           /\ anom.e.issues # <<>>
    /\ (DetectorNotReady /\ ~anom.skip_if_no_model) => anom.e.err
    /\ (anom.built /\ ~anom.e.err /\ ~Has(anom.e.ds.vars, "PH_ANOMALY_FLAG")) =>
           /\ anom.e.issues # <<>>
           /\ anom.validate # "False"

\* ArgoMetadataEnricher(input, input_file).enrich() was the one call made so
\* far, and it returned
ArgoApplied ==
    /\ Len(calls) = 1
    /\ calls[1].names = <<"ArgoMetadataEnricher">>
    /\ calls[1].result = "returned"

\* the file name holds 7 consecutive digits
HasWmo(file) ==
    \E i \in 1..(Len(Chars[file]) - 6) : \A j \in i..(i + 6) : Chars[file][j] \in Digits

IssueTypes(enricher) == {enricher.issues[i].type : i \in DOMAIN enricher.issues}

Added(enricher) == {enricher.changes[i].details : i \in DOMAIN enricher.changes}

\* C18: Argo WMO extraction and its failure path.  The WMO number is the first
\* run of 7 consecutive digits in the file name ('BD5904468_001.nc' gives
\* '5904468', 'R5904471_001.nc' gives '5904471').  When the file name holds
\* no 7 consecutive digits, the WMO number is None, a no_wmo_number issue is
\* logged, and enrich() adds none of the WMO-dependent attributes id, source
\* and datasetID while still adding the WMO-independent attributes doi,
\* program and license when they are absent.
C18_WmoExtraction ==
    /\ Argo_extract_wmo_number("BD5904468_001.nc") = "5904468"
    /\ Argo_extract_wmo_number("R5904471_001.nc") = "5904471"
    /\ (ArgoApplied /\ HasWmo(input_file)) =>
           /\ "no_wmo_number" \notin IssueTypes(enrichers[1])
           /\ \A k \in {"id", "source", "datasetID", "wmo_platform_code"} :
                  Has(dataset.attrs, k)
           /\ ~Has(input.ds.attrs, "wmo_platform_code") =>
                  /\ dataset.attrs["wmo_platform_code"].t = "str"
                  /\ \E i \in 1..(Len(Chars[input_file]) - 6) :
                         /\ Join(dataset.attrs["wmo_platform_code"].v)
                                = Join(SubSeq(Chars[input_file], i, i + 6))
                         /\ \A j \in i..(i + 6) : Chars[input_file][j] \in Digits
                         /\ \A h \in 1..(i - 1) :
                                \E j \in h..(h + 6) : Chars[input_file][j] \notin Digits
    /\ (ArgoApplied /\ ~HasWmo(input_file)) =>
           /\ Argo_extract_wmo_number(input_file) = "none"
           /\ "no_wmo_number" \in IssueTypes(enrichers[1])
           /\ \A k \in {"id", "source", "datasetID"} :
                  /\ Has(dataset.attrs, k) <=> Has(input.ds.attrs, k)
                  /\ Has(dataset.attrs, k) => dataset.attrs[k] = input.ds.attrs[k]
                  /\ k \notin Added(enrichers[1])
           /\ \A k \in {"doi", "program", "license"} :
                  /\ Has(dataset.attrs, k)
                  /\ ~Has(input.ds.attrs, k) => k \in Added(enrichers[1])

\* enrich() on a file name with six digits, a separator and a seventh digit:
\* no WMO number, no id, and the DOI added
C18_Witness ==
    /\ ArgoApplied
    /\ input_file = "float_590446_8.nc"
    /\ ~Has(input.ds.attrs, "id")
    /\ ~Has(dataset.attrs, "id")
    /\ ~Has(input.ds.attrs, "doi")
    /\ Has(dataset.attrs, "doi")
    /\ "no_wmo_number" \in IssueTypes(enrichers[1])

\* one step of a pipeline that only moves forward: a loaded dataset is not
\* replaced by a call between runs, save() writes a loaded dataset, nothing
\* is processed once the output has been written, and no registered name has
\* its enricher completed twice
C19_Step ==
    /\ (loaded /\ pc = "idle" /\ pc' = "idle") => dataset' = dataset
    /\ (~out_exists /\ out_exists') => (loaded /\ out' = dataset)
    /\ out_exists => (hist' = hist /\ pc' = "idle")
    /\ \A i, j \in DOMAIN hist' :
           (i < j /\ IsCompleted(hist'[i]) /\ IsCompleted(hist'[j])) =>
               hist'[i].name # hist'[j].name

\* C19: forward-only pipeline lifecycle.  For any sequence of load_dataset(),
\* run() and save() calls on one pipeline object, the state only advances
\* along Created, Loaded, Running(enricher 1..n), Saved: the input file is
\* loaded at most once, save() writes only after a dataset has been loaded,
\* no enricher runs after save() has completed, and no enricher is applied a
\* second time to the pipeline's dataset.
C19_ForwardOnly == [][C19_Step]_vars

\* one enricher was applied to the input, and enrich() returned
AppliedOnce == Len(calls) = 1 /\ calls[1].result = "returned"

\* the text of old is still inside new
KeepsText(new, old) ==
    /\ new.t = "str"
    /\ old.t = "str"
    /\ \E off \in 0..Len(new.v) :
           \A i \in 1..Len(SelectSeq(old.v, LAMBDA p : p # "")) :
               /\ off + i <= Len(new.v)
               /\ new.v[off + i] = SelectSeq(old.v, LAMBDA p : p # "")[i]

\* C21: enrichers only add.  For every enricher and every input dataset, each
\* global attribute, each variable and each variable attribute present in
\* the input is present in the output of enrich() with the same value.  The
\* only permitted value changes are additive merges that keep the old text
\* inside the new value (Conventions, history, references) and the
\* date_modified timestamp.
C21_OnlyAdd ==
    AppliedOnce =>
        /\ \A k \in DOMAIN input.ds.attrs :
               /\ Has(dataset.attrs, k)
               /\ \/ dataset.attrs[k] = input.ds.attrs[k]
                  \/ k = "date_modified"
                  \/ /\ k \in {"Conventions", "history", "references"}
                     /\ KeepsText(dataset.attrs[k], input.ds.attrs[k])
        /\ \A n \in DOMAIN input.ds.vars :
               /\ Has(dataset.vars, n)
               /\ dataset.vars[n].data = input.ds.vars[n].data
               /\ \A a \in DOMAIN input.ds.vars[n].attrs :
                      /\ Has(dataset.vars[n].attrs, a)
                      /\ dataset.vars[n].attrs[a] = input.ds.vars[n].attrs[a]

\* the text of a global attribute of the input, empty when it is absent
OriginalText(k) == IF Has(input.ds.attrs, k) THEN Join(input.ds.attrs[k].v) ELSE ""

\* a step that completes the n-th MetadataEnricher of an unbroken sequence of
\* MetadataEnricher applications, and what the claim says of its result
C22_Step ==
    (/\ Len(enrichers') = Len(enrichers) + 1
     /\ \A i \in DOMAIN enrichers' : enrichers'[i].cls = "MetadataEnricher") =>
        LET n == Len(enrichers')
            history == dataset'.attrs["history"]
        IN  /\ Has(dataset'.attrs, "history")
            /\ Len(history.v) >= 2 * n
            /\ \A i \in 1..n : history.v[2 * i] = ": Enriched by OOI FAIR Pipeline; "
            /\ Join(SubSeq(history.v, 2 * n + 1, Len(history.v))) = OriginalText("history")
            /\ Has(dataset'.attrs, "Conventions")
            /\ TextContains(dataset'.attrs["Conventions"], "CF")
            /\ Has(input.ds.attrs, "Conventions") =>
                   KeepsText(dataset'.attrs["Conventions"], input.ds.attrs["Conventions"])
            /\ n >= 2 =>
                   /\ Len(enrichers'[n].changes) = 1
                   /\ dataset'.vars = dataset.vars
                   /\ DOMAIN dataset'.attrs = DOMAIN dataset.attrs
                   /\ \A k \in DOMAIN dataset.attrs \ {"date_modified", "history"} :
                          dataset'.attrs[k] = dataset.attrs[k]

\* C22: MetadataEnricher re-runs.  When MetadataEnricher is applied n times in
\* sequence, each time to the previous output, the final history attribute
\* consists of n enrichment entries followed by the original history text
\* unchanged, Conventions contains 'CF' and still contains its original text,
\* and every application after the first logs exactly one change (the
\* date_modified/history update) and alters no attribute other than
\* date_modified and history.
C22_MetadataReruns == [][C22_Step]_vars

\* MetadataEnricher applied twice to a dataset that came with a history and
\* with a Conventions that did not name CF
C22_Witness ==
    /\ Len(enrichers) = 2
    /\ \A i \in DOMAIN enrichers : enrichers[i].cls = "MetadataEnricher"
    /\ Has(input.ds.attrs, "history")
    /\ Has(input.ds.attrs, "Conventions")
    /\ ~TextContains(input.ds.attrs["Conventions"], "CF")
    /\ Len(dataset.attrs["history"].v) = 4 + Len(input.ds.attrs["history"].v)

\* the searchable_metadata entry of the findable details of the report
SearchableMetadata ==
    report.score.findable_details[
        CHOOSE i \in DOMAIN report.score.findable_details :
            report.score.findable_details[i].name = "searchable_metadata"]

\* C23: the searchable_metadata metric (6 required geospatial and
\* time-coverage attributes, check type `most`) earns its full 5 points with
\* status pass whenever at least 4 of its 6 required attributes are present.
C23_SearchableMetadata ==
    (/\ Assessed
     /\ Cardinality({k \in SeqRange(FINDABLE_METRICS[3].required_attrs) :
                        Has(input.ds.attrs, k)}) >= 4) =>
        /\ FINDABLE_METRICS[3].name = "searchable_metadata"
        /\ Len(FINDABLE_METRICS[3].required_attrs) = 6
        /\ SearchableMetadata.points_earned = QInt(5)
        /\ SearchableMetadata.status = "pass"

\* the rubric tables in the order the details of a FAIRScore are kept
RubricTables ==
    <<FINDABLE_METRICS, ACCESSIBLE_METRICS, INTEROPERABLE_METRICS, REUSABLE_METRICS>>

DetailLists(score) ==
    <<score.findable_details, score.accessible_details,
      score.interoperable_details, score.reusable_details>>

\* C24: MetricScore invariant.  Every MetricScore produced by a metric
\* evaluation of assess() satisfies 0 <= points_earned <= points_possible,
\* has points_possible equal to the rubric's point value for that metric, has
\* status in {pass, partial, fail, warning}, and has status pass whenever
\* points_earned equals points_possible; each principle's detail list holds
\* its four metrics in rubric definition order.
C24_MetricScoreInvariant ==
    Assessed =>
        \A p \in 1..4 :
            /\ Len(DetailLists(report.score)[p]) = 4
            /\ Len(RubricTables[p]) = 4
            /\ \A i \in 1..4 :
                   LET ms == DetailLists(report.score)[p][i]
                       m == RubricTables[p][i]
                   IN  /\ ms.name = m.name
                       /\ ms.points_possible = m.points
                       /\ QLeq(QInt(0), ms.points_earned)
                       /\ QLeq(ms.points_earned, QInt(ms.points_possible))
                       /\ ms.status \in {"pass", "partial", "fail", "warning"}
                       /\ ms.points_earned = QInt(ms.points_possible) => ms.status = "pass"

\* an assessment in which quality_control earned all of its 7 points and
\* cf_compliance only part of its 15
C24_Witness ==
    /\ Assessed
    /\ report.score.reusable_details[3].points_earned = QInt(7)
    /\ report.score.reusable_details[3].status = "pass"
    /\ report.score.interoperable_details[1].status = "partial"
    /\ report.score.interoperable_details[4].status = "pass"


\* position i of the sample x holds NaN in one of the three arrays
NaNAt(x, i) == "nan" \in {x.ph.flat[i], x.pressure.flat[i], x.temperature.flat[i]}

\* the call on d returned an array of the shape of ph whose elements are in
\* values, with fill at every NaN position, and left model and scaler alone
ShapedLike(d, d2, x, values, fill) ==
    /\ d2.last.outcome = "returned"
    /\ d2.returned.shape = x.ph.shape
    /\ DOMAIN d2.returned.flat = DOMAIN x.ph.flat
    /\ \A i \in DOMAIN x.ph.flat :
           /\ d2.returned.flat[i] \in values
           /\ NaNAt(x, i) => d2.returned.flat[i] = fill
    /\ d2.model = d.model
    /\ d2.scaler = d.scaler
    /\ d2.is_trained = d.is_trained

\* C25: detector output shape and NaN defaults.  For a trained detector and
\* any three equally sized input arrays, detect() returns an array of the
\* input's shape whose every element is -1 or +1, with +1 at every position
\* where any of the three inputs is NaN; get_anomaly_scores() returns an array
\* of the same shape with 0.0 at every such position; neither call changes
\* the fitted model or scaler.
C25_OutputShape ==
    (det.built /\ det.is_trained) =>
        \A x \in Samples :
            /\ ShapedLike(det, detect(det, x.ph, x.pressure, x.temperature), x, {-1, 1}, 1)
            /\ ShapedLike(det, get_anomaly_scores(det, x.ph, x.pressure, x.temperature),
                          x, -10..10, 0)

\* detect() on a trained detector has returned the labels of the 2 x 2 grid:
\* +1 at the NaN position, -1 at the extreme one
C25_Witness ==
    /\ det.built
    /\ det.is_trained
    /\ det.last = [op |-> "detect", outcome |-> "returned"]
    /\ det.returned.shape = <<2, 2>>
    /\ det.returned.flat[3] = 1
    /\ det.returned.flat[4] = -1

\* both artifact files exist and hold the model and scaler of detector d
HoldsArtifacts(environment, d) ==
    /\ environment.model
    /\ environment.scaler
    /\ environment.model_file = d.model
    /\ environment.scaler_file = d.scaler

\* a fresh detector on the same model path, after load_model() from the files
Reloaded(environment) == load_model(PHAnomalyDetector, environment)

PriorityRank(priority) ==
    CASE priority = "high" -> 1 [] priority = "medium" -> 2 [] OTHER -> 3

\* the tuple comes from a stored check that scored below its possible value
FromViolation(results, recommendation) ==
    \E i \in DOMAIN results.all_priorities :
        /\ results.all_priorities[i].priority = recommendation[1]
        /\ results.all_priorities[i].name = recommendation[2]
        /\ results.all_priorities[i].value[1] < results.all_priorities[i].value[2]

\* C27: CFComplianceChecker.get_recommendations(max_items) returns at most
\* max_items tuples for every max_items >= 0 and any stored results, lists
\* every high-priority violation before any medium-priority one and every
\* medium before any low, includes only checks whose scored value is below
\* their possible value, and returns an empty list when no compliance check
\* has been run.
C27_Recommendations ==
    (checker.built /\ checker.last = "get_recommendations") =>
        /\ Len(checker.returned) <= checker.max_items
        /\ \A i, j \in DOMAIN checker.returned :
               i < j => PriorityRank(checker.returned[i][1])
                            <= PriorityRank(checker.returned[j][1])
        /\ \A i \in DOMAIN checker.returned :
               FromViolation(checker.results, checker.returned[i])
        /\ ~checker.results.run => checker.returned = <<>>

\* the parts of C27 other than the bound on the length
OrderedViolations ==
    (checker.built /\ checker.last = "get_recommendations") =>
        /\ checker.max_items >= 1 => Len(checker.returned) <= checker.max_items
        /\ \A i, j \in DOMAIN checker.returned :
               i < j => PriorityRank(checker.returned[i][1])
                            <= PriorityRank(checker.returned[j][1])
        /\ \A i \in DOMAIN checker.returned :
               FromViolation(checker.results, checker.returned[i])
        /\ ~checker.results.run => checker.returned = <<>>

\* the enrichers that completed, in the order they ran, by class
CompletedClasses(h) ==
    LET done == SelectSeq(h, IsCompleted)
    IN  [i \in DOMAIN done |-> enricher_map[kind][done[i].name]]

\* one step of run(): when the enrich() call of an enricher raises, the
\* pipeline keeps the dataset, the enrichers list and the summary map it had,
\* which are those left by the enrichers that completed before
C28_Step ==
    (/\ pc = "running"
     /\ todo # <<>>
     /\ Head(todo) \in DOMAIN enricher_map[kind]
     /\ last' = "raised") =>
        /\ dataset' = dataset
        /\ enrichers' = enrichers
        /\ summary' = summary
        /\ [i \in DOMAIN enrichers' |-> enrichers'[i].cls] = CompletedClasses(hist')
        /\ DOMAIN summary' = {enrichers'[i].cls : i \in DOMAIN enrichers'}
        /\ enrichers' = <<>> => dataset' = input.ds

\* C28: state unchanged on enricher failure.  If the enrich() call of the
\* k-th enricher raises during run(), the pipeline's dataset is exactly the
\* dataset returned by enricher k-1 (the loaded input when k = 1), with no
\* modification made by enricher k visible in it, and the pipeline's
\* enrichers list and summary map hold exactly enrichers 1..k-1.
C28_UnchangedOnFailure == [][C28_Step]_vars

\* the second enricher of a run raised after it had changed its copy of the
\* dataset; the pipeline holds the dataset the first enricher returned
C28_Witness ==
    /\ last = "raised"
    /\ pc = "idle"
    /\ Len(enrichers) = 1
    /\ dataset # input.ds
    /\ hist # <<>>
    /\ hist[Len(hist)].outcome = "raised"
    /\ hist[Len(hist)].name \in DOMAIN enricher_map[kind]
    /\ \E e \in {Enrich(enricher_map[kind][hist[Len(hist)].name], dataset, input_file,
                        env, now - 1)} :
           e.err /\ e.ds # dataset

\* the sum of changes_made over the entries of a summary map
RECURSIVE SumChangesMade(_, _)
SumChangesMade(entries, keys) ==
    IF keys = {} THEN 0
    ELSE LET k == CHOOSE key \in keys : TRUE
         IN  entries[k].changes_made + SumChangesMade(entries, keys \ {k})

\* C29: summary self-consistency.  After any sequence of run() calls on one
\* pipeline object, including repeated runs and name lists that repeat an
\* enricher, the dictionary returned by get_enrichment_summary() has
\* enrichers_run equal to the number of entries in its enrichers map and
\* total_changes equal to the sum of changes_made over those entries.
C29_SummarySelfConsistency ==
    pc = "idle" =>
        /\ get_enrichment_summary.enrichers_run
               = Cardinality(DOMAIN get_enrichment_summary.enrichers)
        /\ get_enrichment_summary.total_changes
               = SumChangesMade(get_enrichment_summary.enrichers,
                                DOMAIN get_enrichment_summary.enrichers)

\* C30: VariableEnricher postcondition.  For every dataset, after
\* VariableEnricher.enrich() completes, VariableEnricher.validate() returns
\* True, that is every data variable that validate() inspects (every variable
\* not detected as a QC flag) carries both units and long_name.
C30_VariablePostcondition ==
    (enrichers # <<>> /\ last = "returned") =>
        /\ VariableEnricher_validate(NewEnricher(dataset))
        /\ \A n \in DataVars(dataset) :
               ~Var_is_qc_variable(n) =>
                   /\ Has(dataset.vars[n].attrs, "units")
                   /\ Has(dataset.vars[n].attrs, "long_name")

====
